---------------------------- MODULE Spec2Model ----------------------------
(***************************************************************************)
(* vBrowser: a browser front end (React) for vector databases, talking to  *)
(* a backend over HTTP.                                                    *)
(*                                                                         *)
(* The front end is modelled from its source: the ApiService               *)
(* (services/api) and the Browser page.  The backend                       *)
(* (backend/main.py in the README's project structure) is not part of the  *)
(* source tree; its operations (page fetch, substring search, similarity   *)
(* search, export) are modelled from the specification's sections 4.2-4.6  *)
(* and are marked as such where they are defined.                          *)
(***************************************************************************)
EXTENDS Integers, Sequences, FiniteSets, Bags, TLC

(***************************************************************************)
(* Bounds of the model.                                                    *)
(***************************************************************************)
\* requests that may be in flight at the same time
MaxInFlight == 2
\* page size of the browser (the source's pointsPerPage state holds 50; the
\* model scales it down so that the three-point collection spans two pages)
pointsPerPage == 2
\* result limit the browser sends with a text search (100 in the source)
SearchLimit == 2
\* internal page size of the backend's scan and export loops
ScanPageSize == 2
\* dimensionality of the vectors stored in the collections
VecDim == 2

Null == "<null>"
NoVector == <<>>

Min(a, b) == IF a <= b THEN a ELSE b
Max(a, b) == IF a >= b THEN a ELSE b

(***************************************************************************)
(* Strings are sequences of characters, so that trimming, case folding and *)
(* substring tests are computed and not assumed.                           *)
(***************************************************************************)
sApple == <<"A", "p", "p", "l", "e">>
sapple == <<"a", "p", "p", "l", "e">>
sApplePie == <<"A", "p", "p", "l", "e", " ", "p", "i", "e">>
sappleTart == <<"a", "p", "p", "l", "e", " ", "t", "a", "r", "t">>
sBanana == <<"B", "a", "n", "a", "n", "a">>
sPAN == <<"P", "A", "N">>
sa == <<" ", "a", " ">>
sEmpty == <<>>
sTitle == <<"t", "i", "t", "l", "e">>

\* String.prototype.toLowerCase on one character of the model's alphabet
LowerChar(c) ==
    CASE c = "A" -> "a"
      [] c = "B" -> "b"
      [] c = "N" -> "n"
      [] c = "P" -> "p"
      [] OTHER -> c

toLowerCase(s) == [i \in 1..Len(s) |-> LowerChar(s[i])]

RECURSIVE trimStart(_)
trimStart(s) == IF s # <<>> /\ Head(s) = " " THEN trimStart(Tail(s)) ELSE s

RECURSIVE trimEnd(_)
trimEnd(s) ==
    IF s # <<>> /\ s[Len(s)] = " " THEN trimEnd(SubSeq(s, 1, Len(s) - 1)) ELSE s

\* String.prototype.trim
trim(s) == trimEnd(trimStart(s))

\* plain substring test: needle occurs in hay at some position
Includes(hay, needle) ==
    \E i \in 0..(Len(hay) - Len(needle)) :
        SubSeq(hay, i + 1, i + Len(needle)) = needle

(***************************************************************************)
(* The backend's data: collections of points.  A point has a native id, a  *)
(* payload (one top-level key, title) and a vector.                        *)
(***************************************************************************)
StoredPoint(id, title, k) ==
    [id |-> id, payload |-> [title |-> title], vector |-> [i \in 1..VecDim |-> k]]

DocsPoints ==
    << StoredPoint("1", sApplePie, 1),
       StoredPoint("2", sappleTart, 2),
       StoredPoint("3", sBanana, 3) >>

MiscPoints == << StoredPoint("4", sPAN, 4) >>

InitialStore == [c \in {"docs", "misc"} |-> IF c = "docs" THEN DocsPoints ELSE MiscPoints]

\* the instance the browser page is open for when only that page is modelled
localName == "local"

(***************************************************************************)
(* Backend, modelled from the specification (sections 4.2 to 4.6).         *)
(***************************************************************************)
\* 4.2 collection mapping
CollectionInfoOf(name, pts) ==
    [name |-> name, vector_size |-> VecDim, distance |-> "Cosine",
     points_count |-> Len(pts), segments_count |-> 0, status |-> "unknown"]

\* 4.2 record mapping: the vector only when requested, never a score for a read
PointInfoOf(p, includePayload, includeVector) ==
    [id |-> p.id,
     payload |-> IF includePayload THEN p.payload ELSE [title |-> sEmpty],
     vector |-> IF includeVector THEN p.vector ELSE NoVector,
     score |-> <<>>]

\* 4.3 limit outside [1, 1000] is rejected with InvalidLimit
ValidLimit(limit) == limit >= 1 /\ limit <= 1000

\* a variant of 4.3 that fills the page from the start of the collection
\* again when the points from offset on run out
PageItemsWrapped(pts, offset, limit, includePayload, includeVector) ==
    [i \in 1..Min(limit, Len(pts)) |->
        PointInfoOf(pts[((offset + i - 1) % Len(pts)) + 1],
                    includePayload, includeVector)]

\* 4.3 the items of the page at offset: at most limit points from offset on
PageItems(pts, offset, limit, includePayload, includeVector) ==
    [i \in 1..Min(limit, Max(0, Len(pts) - offset)) |->
        PointInfoOf(pts[offset + i], includePayload, includeVector)]

\* 4.3 fetchPage(collection, offset, limit, includePayload, includeVector)
fetchPage(pts, offset, limit, includePayload, includeVector) ==
    IF ~ValidLimit(limit)
    THEN [ok |-> FALSE, detail |-> "InvalidLimit"]
    ELSE [ok |-> TRUE,
          points |-> PageItems(pts, offset, limit, includePayload, includeVector),
          total |-> Len(pts), limit |-> limit, offset |-> offset]

\* 4.4 canonical string form of a payload (the model's payloads have the one key)
SerializePayload(payload) == sTitle \o <<":">> \o payload.title

\* a variant of 4.4 whose case-insensitive mode lowercases the needle only
MatchesPayloadNeedleOnly(payload, needle, caseSensitive) ==
    IF caseSensitive
    THEN Includes(SerializePayload(payload), needle)
    ELSE Includes(SerializePayload(payload), toLowerCase(needle))

\* 4.4 the needle is a plain substring of the serialized payload; the
\* case-insensitive mode lowercases both sides
MatchesPayload(payload, needle, caseSensitive) ==
    IF caseSensitive
    THEN Includes(SerializePayload(payload), needle)
    ELSE Includes(toLowerCase(SerializePayload(payload)), toLowerCase(needle))

\* 4.4 one fetched page is scanned in order; matching stops at maxResults
RECURSIVE ScanItems(_, _, _, _, _)
ScanItems(items, needle, caseSensitive, maxResults, acc) ==
    IF items = <<>> \/ Len(acc.results) = maxResults
    THEN acc
    ELSE LET p == Head(items)
             hit == MatchesPayload(p.payload, needle, caseSensitive)
         IN ScanItems(Tail(items), needle, caseSensitive, maxResults,
                [results |-> IF hit THEN Append(acc.results, p) ELSE acc.results,
                 total |-> IF hit THEN acc.total + 1 ELSE acc.total,
                 searched_total |-> acc.searched_total + 1])

\* 4.4 pages of a fixed internal size from offset 0, payload without vectors,
\* until no page is left or maxResults results are held
RECURSIVE ScanFrom(_, _, _, _, _, _)
ScanFrom(pts, offset, needle, caseSensitive, maxResults, acc) ==
    IF offset >= Len(pts) \/ Len(acc.results) = maxResults
    THEN acc
    ELSE ScanFrom(pts, offset + ScanPageSize, needle, caseSensitive, maxResults,
            ScanItems(fetchPage(pts, offset, ScanPageSize, TRUE, FALSE).points,
                      needle, caseSensitive, maxResults, acc))

\* 4.4 search(collection, needle, caseSensitive, maxResults)
search(pts, needle, caseSensitive, maxResults) ==
    ScanFrom(pts, 0, needle, caseSensitive, maxResults,
             [results |-> <<>>, total |-> 0, searched_total |-> 0])

\* 4.6 the header row: id, the payload keys, and one column per dimension
ExportHeader(includeVectors) ==
    [columns |-> <<"id", "title">> \o
                 (IF includeVectors THEN [i \in 1..VecDim |-> "vector"] ELSE <<>>)]

\* 4.6 one row per point
ExportRow(p) == [id |-> p.id, title |-> p.payload.title, vector |-> p.vector]

\* a variant of 4.6 whose internal pages leave one point out between them
RECURSIVE ExportFromSkipping(_, _, _)
ExportFromSkipping(pts, offset, includeVectors) ==
    IF offset >= Len(pts)
    THEN <<>>
    ELSE LET items == fetchPage(pts, offset, ScanPageSize, TRUE, includeVectors).points
         IN [i \in 1..Len(items) |-> ExportRow(items[i])]
            \o ExportFromSkipping(pts, offset + ScanPageSize + 1, includeVectors)

\* 4.6 the pages from offset 0 to total, in fixed-size internal pages
RECURSIVE ExportFrom(_, _, _)
ExportFrom(pts, offset, includeVectors) ==
    IF offset >= Len(pts)
    THEN <<>>
    ELSE LET items == fetchPage(pts, offset, ScanPageSize, TRUE, includeVectors).points
         IN [i \in 1..Len(items) |-> ExportRow(items[i])]
            \o ExportFrom(pts, offset + ScanPageSize, includeVectors)

\* 4.6 export(collection, includeVectors): the header, then the rows
export(pts, includeVectors) ==
    <<ExportHeader(includeVectors)>> \o ExportFrom(pts, 0, includeVectors)

(***************************************************************************)
(* State.                                                                  *)
(*   store      the backend's collections: name -> sequence of points      *)
(*   net        the requests in flight (a bag): each the pending await of  *)
(*              one handler, with the values its closure captured          *)
(*   browser    the Browser component's React state                        *)
(*   downloaded the last file download the page triggered (a.click())      *)
(*   shownFrom  history: the request and the collection contents that      *)
(*              produced the search results the browser holds              *)
(*   scanned    history: the pages of one collection received in order,    *)
(*              from offset 0 on                                           *)
(*   driverCall the last vectorQuery the backend passed to its driver      *)
(*   outcome    what the last caller of ApiService.searchPoints got back,  *)
(*              the last navigation, or the last confirm dialog and its    *)
(*              answer                                                     *)
(*   probe      the inputs given to a pure function (the matcher, the      *)
(*              highlighting components) and what it returned              *)
(*   pageRead   the limit of the last page read the backend passed to its  *)
(*              driver for a getPoints request                             *)
(*   registry   the backend's instance registry (section 4.1)              *)
(*   ctx        the ConfigProvider's state: instances and configs          *)
(*   welcome    the Welcome page's state                                   *)
(*   route      the router's location: "/" or the name after /browser/     *)
(***************************************************************************)
VARIABLES store, net, browser, downloaded, shownFrom, scanned, driverCall,
          outcome, probe, pageRead, registry, ctx, welcome, route

vars == <<store, net, browser, downloaded, shownFrom, scanned, driverCall,
          outcome, probe, pageRead, registry, ctx, welcome, route>>

\* useParams: the route parameter configName of the Browser page
configName == route

\* the instance registry, the ConfigProvider, the Welcome page and the router
aside == <<registry, ctx, welcome, route>>

\* what the Browser page never touches
apart == <<driverCall, outcome, probe, pageRead, aside>>

NoResponse == [ok |-> FALSE, detail |-> "<pending>"]
NoDownload == [collection |-> Null, blob |-> <<>>]
NoSource == [request |-> Null]
NoScan == [collection |-> Null, pages |-> <<>>, total |-> 0]
NoClosure == [none |-> TRUE]

\* what the user may type into the search box
SearchTexts == {sApple, sapple, sa}

InFlight == BagCardinality(net)
Sent(m) == net (+) SetToBag({m})
Gone(m) == net (-) SetToBag({m})
Pending == {m \in BagToSet(net) : m.stage = "request"}
Answered == {m \in BagToSet(net) : m.stage = "response"}

Names(cols) == {cols[i].name : i \in 1..Len(cols)}
Ids(pts) == {pts[i].id : i \in 1..Len(pts)}

(***************************************************************************)
(* ApiService: each method builds the request the backend receives.        *)
(***************************************************************************)
\* ApiService.getCollections
getCollections(cfg) == [kind |-> "getCollections", config |-> cfg]

\* ApiService.getPoints: limit, offset, with_payload, with_vector as query
getPoints(cfg, collectionName, limit, offset, withPayload, withVector) ==
    [kind |-> "getPoints", config |-> cfg, collection |-> collectionName,
     limit |-> limit, offset |-> offset,
     with_payload |-> withPayload, with_vector |-> withVector]

\* ApiService.textSearchPoints: the request body is the TextSearchRequest
textSearchPoints(cfg, searchRequest) ==
    [kind |-> "textSearch", config |-> cfg, body |-> searchRequest]

\* ApiService.deleteCollection
deleteCollection(cfg, collectionName) ==
    [kind |-> "deleteCollection", config |-> cfg, collection |-> collectionName]

\* ApiService.clearCollection
clearCollection(cfg, collectionName) ==
    [kind |-> "clearCollection", config |-> cfg, collection |-> collectionName]

\* ApiService.deletePoint
deletePoint(cfg, collectionName, pointId) ==
    [kind |-> "deletePoint", config |-> cfg, collection |-> collectionName,
     id |-> pointId]

\* ApiService.exportCollection: the URL carries with_vectors
exportRequest(cfg, collectionName, withVectors) ==
    [kind |-> "export", config |-> cfg, collection |-> collectionName,
     with_vectors |-> withVectors]

\* ApiService.searchPoints: the request body is the SearchRequest
searchPoints(cfg, searchRequest) ==
    [kind |-> "search", config |-> cfg, body |-> searchRequest]

\* ApiService.request: a non-OK response throws Error(detail), else the body
Thrown(resp) == ~resp.ok

\* a variant of exportCollection that returns whatever blob arrived
exportCollectionUnchecked(resp) ==
    IF ~resp.ok
    THEN [thrown |-> TRUE, message |-> resp.detail, blob |-> <<>>]
    ELSE [thrown |-> FALSE, message |-> Null, blob |-> resp.blob]

\* ApiService.exportCollection, after the fetch: a non-OK response throws, and
\* so does a blob of size 0
exportCollection(resp) ==
    IF ~resp.ok
    THEN [thrown |-> TRUE, message |-> resp.detail, blob |-> <<>>]
    ELSE IF Len(resp.blob) = 0
    THEN [thrown |-> TRUE, message |-> "Export failed: Empty file received",
          blob |-> <<>>]
    ELSE [thrown |-> FALSE, message |-> Null, blob |-> resp.blob]

(***************************************************************************)
(* Browser component.                                                      *)
(***************************************************************************)
\* the useState initial values
InitialBrowser ==
    [collections |-> <<>>, selectedCollection |-> Null, points |-> <<>>,
     totalPoints |-> 0, isLoading |-> FALSE, error |-> Null,
     showVectors |-> FALSE, currentPage |-> 0,
     searchText |-> sEmpty, isSearching |-> FALSE, searchResults |-> <<>>,
     searchTotal |-> 0, searchedTotal |-> 0, isSearchMode |-> FALSE,
     caseSensitive |-> FALSE, searchCurrentPage |-> 0,
     searchResultsPerPage |-> 1]

\* Math.ceil(totalPoints / pointsPerPage)
totalPages(b) == (b.totalPoints + pointsPerPage - 1) \div pointsPerPage

displayPoints(b) == IF b.isSearchMode THEN b.searchResults ELSE b.points

\* the collection list is rendered unless isLoading (a spinner replaces it)
ListShown(b) == ~b.isLoading /\ b.collections # <<>>

\* the point list is rendered unless isLoading or isSearching
PointsShown(b) ==
    b.selectedCollection # Null /\ ~(b.isLoading \/ b.isSearching)

\* a variant of the vector block that is rendered whenever a vector is held
VectorShownAlways(b, p) == p.vector # NoVector

\* the vector block of a point of the list
VectorShown(b, p) == ~b.isSearchMode /\ b.showVectors /\ p.vector # NoVector

\* clearSearch
clearSearch(b) ==
    [b EXCEPT !.searchText = sEmpty, !.searchResults = <<>>, !.searchTotal = 0,
              !.searchedTotal = 0, !.isSearchMode = FALSE, !.currentPage = 0,
              !.searchCurrentPage = 0]

\* loadCollections, up to its await
loadCollectionsStart(b) == [b EXCEPT !.isLoading = TRUE, !.error = Null]

\* loadPoints, up to its await: the state it sets
loadPointsStart(b) == [b EXCEPT !.isLoading = TRUE, !.error = Null]

\* a variant of loadPoints whose offsets advance by one more than the limit
loadPointsRequestSkipping(c) ==
    getPoints(configName, c.selectedCollection, pointsPerPage,
              c.currentPage * (pointsPerPage + 1), TRUE, c.showVectors)

\* a variant of loadPoints that asks for pages of no points
loadPointsRequestEmpty(c) ==
    getPoints(configName, c.selectedCollection, 0,
              c.currentPage * pointsPerPage, TRUE, c.showVectors)

\* loadPoints: the request, from the values of the render it was created in
loadPointsRequest(c) ==
    getPoints(configName, c.selectedCollection, pointsPerPage,
              c.currentPage * pointsPerPage, TRUE, c.showVectors)

\* handleSearch: the guard that returns early
canSearch(c) == c.selectedCollection # Null /\ trim(c.searchText) # <<>>

\* handleSearch, up to its await: the state it sets
handleSearchStart(b) ==
    [b EXCEPT !.isSearching = TRUE, !.error = Null, !.searchCurrentPage = 0]

\* a variant of handleSearch that sends the search text as typed
searchRequestUntrimmed(c) ==
    textSearchPoints(configName,
        [collection_name |-> c.selectedCollection,
         search_text |-> c.searchText,
         limit |-> SearchLimit,
         case_sensitive |-> c.caseSensitive])

\* a variant of handleSearch that asks for one result more
searchRequestOverLimit(c) ==
    textSearchPoints(configName,
        [collection_name |-> c.selectedCollection,
         search_text |-> trim(c.searchText),
         limit |-> SearchLimit + 1,
         case_sensitive |-> c.caseSensitive])

\* handleSearch: the TextSearchRequest, from the values of its render
searchRequestOf(c) ==
    textSearchPoints(configName,
        [collection_name |-> c.selectedCollection,
         search_text |-> trim(c.searchText),
         limit |-> SearchLimit,
         case_sensitive |-> c.caseSensitive])

\* the values of its render a handler reads: all of them (handleDeletePoint),
\* those loadPoints reads, those handleSearch reads, those
\* handleClearCollection and handleDeleteCollection read after their await
Closure(b) ==
    [selectedCollection |-> b.selectedCollection, currentPage |-> b.currentPage,
     showVectors |-> b.showVectors, isSearchMode |-> b.isSearchMode,
     searchText |-> b.searchText, caseSensitive |-> b.caseSensitive]

SearchClosure(b) ==
    [selectedCollection |-> b.selectedCollection, searchText |-> b.searchText,
     caseSensitive |-> b.caseSensitive]

ClearClosure(b) ==
    [selectedCollection |-> b.selectedCollection, currentPage |-> b.currentPage,
     showVectors |-> b.showVectors, isSearchMode |-> b.isSearchMode]

DeleteClosure(b) == [selectedCollection |-> b.selectedCollection]

\* the page index of the render a loadPoints was created in
PageClosure(b) == [currentPage |-> b.currentPage]

\* a request in flight: the handler waiting for it and what its closure holds
Message(handler, request, closure) ==
    [handler |-> handler, request |-> request, closure |-> closure,
     stage |-> "request", response |-> NoResponse, snapshot |-> <<>>]

\* the second useEffect: its dependencies changed between two renders and its
\* condition holds
EffectLoadPoints(old, new) ==
    /\ \/ old.selectedCollection # new.selectedCollection
       \/ old.currentPage # new.currentPage
       \/ old.showVectors # new.showVectors
       \/ old.isSearchMode # new.isSearchMode
    /\ new.selectedCollection # Null
    /\ ~new.isSearchMode

\* a render commit: the state the handler set, then the effect it triggers
\* (loadPoints, created in the new render); src is the origin of the search
\* results held after the step
Commit(new, netAfter, src) ==
    /\ IF EffectLoadPoints(browser, new)
       THEN /\ browser' = loadPointsStart(new)
            /\ net' = netAfter (+) SetToBag({
                   Message("loadPoints", loadPointsRequest(Closure(new)),
                           PageClosure(new))})
       ELSE /\ browser' = new
            /\ net' = netAfter
    /\ BagCardinality(net') <= MaxInFlight
    /\ shownFrom' = src

(***************************************************************************)
(* What the user does on the Browser page.                                 *)
(***************************************************************************)
\* the Refresh button (disabled while isLoading): loadCollections
ClickRefresh ==
    /\ ~browser.isLoading
    /\ Commit(loadCollectionsStart(browser),
              Sent(Message("loadCollections", getCollections(configName), NoClosure)),
              shownFrom)
    /\ UNCHANGED <<store, downloaded, scanned, apart>>

\* a click on a collection of the list: setSelectedCollection, clearSearch
ClickCollection ==
    /\ ListShown(browser)
    /\ \E c \in Names(browser.collections) :
          Commit(clearSearch([browser EXCEPT !.selectedCollection = c]), net,
                 NoSource)
    /\ UNCHANGED <<store, downloaded, scanned, apart>>

\* the Show/Hide Vectors button (rendered outside search mode)
ClickShowVectors ==
    /\ browser.selectedCollection # Null
    /\ ~browser.isSearchMode
    /\ Commit([browser EXCEPT !.showVectors = ~browser.showVectors], net, shownFrom)
    /\ UNCHANGED <<store, downloaded, scanned, apart>>

\* typing into the search box: setSearchText
TypeSearchText ==
    /\ browser.selectedCollection # Null
    /\ \E t \in SearchTexts :
          /\ t # browser.searchText
          /\ Commit([browser EXCEPT !.searchText = t], net, shownFrom)
    /\ UNCHANGED <<store, downloaded, scanned, apart>>

\* the Case sensitive checkbox
ClickCaseSensitive ==
    /\ browser.selectedCollection # Null
    /\ Commit([browser EXCEPT !.caseSensitive = ~browser.caseSensitive], net,
              shownFrom)
    /\ UNCHANGED <<store, downloaded, scanned, apart>>

\* handleSearch (Enter in the search box, or the Search button), to its await
HandleSearch ==
    /\ canSearch(SearchClosure(browser))
    /\ Commit(handleSearchStart(browser),
              Sent(Message("handleSearch", searchRequestOf(SearchClosure(browser)),
                           SearchClosure(browser))),
              shownFrom)
    /\ UNCHANGED <<store, downloaded, scanned, apart>>

\* the Clear button (rendered in search mode): clearSearch
ClickClearSearch ==
    /\ browser.selectedCollection # Null
    /\ browser.isSearchMode
    /\ Commit(clearSearch(browser), net, NoSource)
    /\ UNCHANGED <<store, downloaded, scanned, apart>>

\* Previous: setCurrentPage(Math.max(0, currentPage - 1))
ClickPrevious ==
    /\ browser.selectedCollection # Null
    /\ ~browser.isSearchMode
    /\ totalPages(browser) > 1
    /\ browser.currentPage # 0
    /\ Commit([browser EXCEPT !.currentPage = Max(0, browser.currentPage - 1)],
              net, shownFrom)
    /\ UNCHANGED <<store, downloaded, scanned, apart>>

\* Next: setCurrentPage(Math.min(totalPages - 1, currentPage + 1))
ClickNext ==
    /\ browser.selectedCollection # Null
    /\ ~browser.isSearchMode
    /\ totalPages(browser) > 1
    /\ browser.currentPage # totalPages(browser) - 1
    /\ Commit([browser EXCEPT
                  !.currentPage = Min(totalPages(browser) - 1, browser.currentPage + 1)],
              net, shownFrom)
    /\ UNCHANGED <<store, downloaded, scanned, apart>>

\* handleDeletePoint on a displayed point, confirmed, to its first await
ClickDeletePoint ==
    /\ PointsShown(browser)
    /\ \E id \in Ids(displayPoints(browser)) :
          Commit(browser,
                 Sent(Message("handleDeletePoint",
                              deletePoint(configName, browser.selectedCollection, id),
                              Closure(browser))),
                 shownFrom)
    /\ UNCHANGED <<store, downloaded, scanned, apart>>

\* handleClearCollection on a listed collection, confirmed, to its first await
ClickClearCollection ==
    /\ ListShown(browser)
    /\ \E c \in Names(browser.collections) :
          Commit(browser,
                 Sent(Message("handleClearCollection",
                              clearCollection(configName, c), ClearClosure(browser))),
                 shownFrom)
    /\ UNCHANGED <<store, downloaded, scanned, apart>>

\* handleDeleteCollection on a listed collection, confirmed, to its first await
ClickDeleteCollection ==
    /\ ListShown(browser)
    /\ \E c \in Names(browser.collections) :
          Commit(browser,
                 Sent(Message("handleDeleteCollection",
                              deleteCollection(configName, c), DeleteClosure(browser))),
                 shownFrom)
    /\ UNCHANGED <<store, downloaded, scanned, apart>>

\* handleExportCollection on a listed collection (either download icon)
ClickExport ==
    /\ ListShown(browser)
    /\ \E c \in Names(browser.collections), withVectors \in BOOLEAN :
          Commit(browser,
                 Sent(Message("handleExportCollection",
                              exportRequest(configName, c, withVectors), NoClosure)),
                 shownFrom)
    /\ UNCHANGED <<store, downloaded, scanned, apart>>

(***************************************************************************)
(* The backend answers a pending request (modelled from the specification, *)
(* sections 4 and 7).  The answer is computed from the store as it is at   *)
(* that moment; snapshot records the contents the answer was computed from.*)
(***************************************************************************)
CollectionOrder == <<"docs", "misc">>

Known(c) == c \in DOMAIN store

Answer(m, resp, snap) ==
    (net (-) SetToBag({m})) (+)
        SetToBag({[m EXCEPT !.stage = "response", !.response = resp,
                            !.snapshot = snap]})

NotFound == [ok |-> FALSE, detail |-> "NotFound"]

\* any request may fail at the backend or on the way (section 7)
BackendFails ==
    /\ \E m \in Pending :
          net' = Answer(m, [ok |-> FALSE, detail |-> "BackendUnavailable"], <<>>)
    /\ UNCHANGED <<store, browser, downloaded, shownFrom, scanned, apart>>

\* list the collections (4.2): recomputed from the live store
BackendCollections ==
    /\ \E m \in Pending :
          /\ m.request.kind = "getCollections"
          /\ LET live == SelectSeq(CollectionOrder, Known)
             IN net' = Answer(m,
                    [ok |-> TRUE,
                     collections |->
                        [i \in 1..Len(live) |-> CollectionInfoOf(live[i], store[live[i]])]],
                    <<>>)
    /\ UNCHANGED <<store, browser, downloaded, shownFrom, scanned, apart>>

\* fetch a page of points (4.3): a limit outside the range is rejected
\* before the driver is asked for the page
BackendPoints ==
    /\ \E m \in Pending :
          /\ m.request.kind = "getPoints"
          /\ LET r == m.request
             IN IF Known(r.collection)
                THEN /\ net' = Answer(m,
                            fetchPage(store[r.collection], r.offset, r.limit,
                                      r.with_payload, r.with_vector),
                            store[r.collection])
                     /\ pageRead' = IF ValidLimit(r.limit)
                                    THEN [read |-> TRUE, limit |-> r.limit]
                                    ELSE pageRead
                ELSE /\ net' = Answer(m, NotFound, <<>>)
                     /\ pageRead' = pageRead
    /\ UNCHANGED <<store, browser, downloaded, shownFrom, scanned, driverCall,
                   outcome, probe, aside>>

\* substring search (4.4)
BackendTextSearch ==
    /\ \E m \in Pending :
          /\ m.request.kind = "textSearch"
          /\ LET r == m.request.body
             IN IF Known(r.collection_name)
                THEN LET out == search(store[r.collection_name], r.search_text,
                                       r.case_sensitive, r.limit)
                     IN net' = Answer(m,
                            [ok |-> TRUE, results |-> out.results, total |-> out.total,
                             searched_total |-> out.searched_total],
                            store[r.collection_name])
                ELSE net' = Answer(m, NotFound, <<>>)
    /\ UNCHANGED <<store, browser, downloaded, shownFrom, scanned, apart>>

\* delete one point
BackendDeletePoint ==
    /\ \E m \in Pending :
          /\ m.request.kind = "deletePoint"
          /\ LET r == m.request
             IN IF Known(r.collection) /\ r.id \in Ids(store[r.collection])
                THEN /\ store' = [store EXCEPT ![r.collection] =
                                     SelectSeq(@, LAMBDA p : p.id # r.id)]
                     /\ net' = Answer(m, [ok |-> TRUE, message |-> "deleted"], <<>>)
                ELSE /\ store' = store
                     /\ net' = Answer(m, NotFound, <<>>)
    /\ UNCHANGED <<browser, downloaded, shownFrom, scanned, apart>>

\* delete all points of a collection
BackendClearCollection ==
    /\ \E m \in Pending :
          /\ m.request.kind = "clearCollection"
          /\ LET r == m.request
             IN IF Known(r.collection)
                THEN /\ store' = [store EXCEPT ![r.collection] = <<>>]
                     /\ net' = Answer(m, [ok |-> TRUE, message |-> "cleared"], <<>>)
                ELSE /\ store' = store
                     /\ net' = Answer(m, NotFound, <<>>)
    /\ UNCHANGED <<browser, downloaded, shownFrom, scanned, apart>>

\* delete a collection
BackendDeleteCollection ==
    /\ \E m \in Pending :
          /\ m.request.kind = "deleteCollection"
          /\ LET r == m.request
             IN IF Known(r.collection)
                THEN /\ store' = [c \in DOMAIN store \ {r.collection} |-> store[c]]
                     /\ net' = Answer(m, [ok |-> TRUE, message |-> "deleted"], <<>>)
                ELSE /\ store' = store
                     /\ net' = Answer(m, NotFound, <<>>)
    /\ UNCHANGED <<browser, downloaded, shownFrom, scanned, apart>>

\* export a collection (4.6); the artifact may also arrive with no bytes
\* (the transport failure 4.6 tells the caller to expect)
BackendExport ==
    /\ \E m \in Pending :
          /\ m.request.kind = "export"
          /\ LET r == m.request
             IN IF Known(r.collection)
                THEN \E arrives \in BOOLEAN :
                        net' = Answer(m,
                            [ok |-> TRUE,
                             blob |-> IF arrives
                                      THEN export(store[r.collection], r.with_vectors)
                                      ELSE <<>>],
                            store[r.collection])
                ELSE net' = Answer(m, NotFound, <<>>)
    /\ UNCHANGED <<store, browser, downloaded, shownFrom, scanned, apart>>

(***************************************************************************)
(* The Browser's handlers resume when their awaited response arrives.      *)
(***************************************************************************)
\* loadCollections after its await: try / catch / finally
loadCollectionsDone(b, resp) ==
    IF Thrown(resp)
    THEN [b EXCEPT !.error = resp.detail, !.isLoading = FALSE]
    ELSE [b EXCEPT !.collections = resp.collections, !.isLoading = FALSE]

\* loadPoints after its await: try / catch / finally
loadPointsDone(b, resp) ==
    IF Thrown(resp)
    THEN [b EXCEPT !.error = resp.detail, !.isLoading = FALSE]
    ELSE [b EXCEPT !.points = resp.points, !.totalPoints = resp.total,
                   !.isLoading = FALSE]

\* a variant of handleSearch that leaves searchedTotal as it was
handleSearchDoneKeeping(b, resp) ==
    IF Thrown(resp)
    THEN [b EXCEPT !.error = resp.detail, !.isSearching = FALSE]
    ELSE [b EXCEPT !.searchResults = resp.results, !.searchTotal = resp.total,
                   !.isSearchMode = TRUE, !.isSearching = FALSE]

\* a variant of handleSearch that adds the results to those it holds
handleSearchDoneAppending(b, resp) ==
    IF Thrown(resp)
    THEN [b EXCEPT !.error = resp.detail, !.isSearching = FALSE]
    ELSE [b EXCEPT !.searchResults = @ \o resp.results,
                   !.searchTotal = @ + resp.total,
                   !.searchedTotal = @ + resp.searched_total,
                   !.isSearchMode = TRUE, !.isSearching = FALSE]

\* a variant of handleSearch that shows an empty result when the search failed
handleSearchDoneTruncating(b, resp) ==
    IF Thrown(resp)
    THEN [b EXCEPT !.error = resp.detail, !.searchResults = <<>>,
                   !.isSearchMode = TRUE, !.isSearching = FALSE]
    ELSE [b EXCEPT !.searchResults = resp.results, !.searchTotal = resp.total,
                   !.searchedTotal = resp.searched_total, !.isSearchMode = TRUE,
                   !.isSearching = FALSE]

\* handleSearch after its await: try / catch / finally
handleSearchDone(b, resp) ==
    IF Thrown(resp)
    THEN [b EXCEPT !.error = resp.detail, !.isSearching = FALSE]
    ELSE [b EXCEPT !.searchResults = resp.results, !.searchTotal = resp.total,
                   !.searchedTotal = resp.searched_total, !.isSearchMode = TRUE,
                   !.isSearching = FALSE]

\* handleDeleteCollection after loadCollections returned: the closure's
\* selectedCollection is compared with the deleted name
handleDeleteCollectionDone(b, closure, collectionName) ==
    IF closure.selectedCollection = collectionName
    THEN clearSearch([b EXCEPT !.selectedCollection = Null, !.points = <<>>,
                               !.totalPoints = 0])
    ELSE b

\* handleExportCollection after its await: the download, or the error
handleExportCollectionDone(b, result) ==
    IF result.thrown THEN [b EXCEPT !.error = result.message] ELSE b

\* a loadCollections call (mount effect or Refresh) resumes
LoadCollectionsReturns ==
    /\ \E m \in Answered :
          /\ m.handler = "loadCollections"
          /\ Commit(loadCollectionsDone(browser, m.response), Gone(m), shownFrom)
    /\ UNCHANGED <<store, downloaded, scanned, apart>>

\* history of the pages received: the page of index 0 starts a scan, the page
\* of the next index of the same collection extends it
ScanAfter(m) ==
    IF Thrown(m.response)
    THEN scanned
    ELSE IF m.closure.currentPage = 0
    THEN [collection |-> m.request.collection,
          pages |-> <<m.response.points>>, total |-> m.response.total]
    ELSE IF /\ m.request.collection = scanned.collection
            /\ m.closure.currentPage = Len(scanned.pages)
    THEN [scanned EXCEPT !.pages = Append(@, m.response.points)]
    ELSE scanned

\* a loadPoints call resumes
LoadPointsReturns ==
    /\ \E m \in Answered :
          /\ m.handler = "loadPoints"
          /\ Commit(loadPointsDone(browser, m.response), Gone(m), shownFrom)
          /\ scanned' = ScanAfter(m)
    /\ UNCHANGED <<store, downloaded, apart>>

\* a handleSearch call resumes
HandleSearchReturns ==
    /\ \E m \in Answered :
          /\ m.handler = "handleSearch"
          /\ Commit(handleSearchDone(browser, m.response), Gone(m),
                    IF Thrown(m.response)
                    THEN shownFrom
                    ELSE [request |-> m.request, snapshot |-> m.snapshot])
    /\ UNCHANGED <<store, downloaded, scanned, apart>>

\* handleDeleteCollection resumes after deleteCollection: loadCollections is
\* awaited next, or the error is set
DeleteCollectionReturns ==
    /\ \E m \in Answered :
          /\ m.handler = "handleDeleteCollection"
          /\ m.request.kind = "deleteCollection"
          /\ IF Thrown(m.response)
             THEN Commit([browser EXCEPT !.error = m.response.detail], Gone(m),
                         shownFrom)
             ELSE Commit(loadCollectionsStart(browser),
                         Gone(m) (+) SetToBag({
                             Message("handleDeleteCollection",
                                     getCollections(configName),
                                     [selectedCollection |-> m.closure.selectedCollection,
                                      collectionName |-> m.request.collection])}),
                         shownFrom)
    /\ UNCHANGED <<store, downloaded, scanned, apart>>

\* handleDeleteCollection resumes after its loadCollections
DeleteCollectionReloaded ==
    /\ \E m \in Answered :
          /\ m.handler = "handleDeleteCollection"
          /\ m.request.kind = "getCollections"
          /\ Commit(handleDeleteCollectionDone(
                        loadCollectionsDone(browser, m.response),
                        m.closure, m.closure.collectionName),
                    Gone(m),
                    IF m.closure.selectedCollection = m.closure.collectionName
                    THEN NoSource ELSE shownFrom)
    /\ UNCHANGED <<store, downloaded, scanned, apart>>

\* handleClearCollection resumes after clearCollection: clearSearch in search
\* mode, else loadPoints (both read from the closure)
ClearCollectionReturns ==
    /\ \E m \in Answered :
          /\ m.handler = "handleClearCollection"
          /\ IF Thrown(m.response)
             THEN Commit([browser EXCEPT !.error = m.response.detail], Gone(m),
                         shownFrom)
             ELSE IF m.closure.isSearchMode
             THEN Commit(clearSearch(browser), Gone(m), NoSource)
             ELSE IF m.closure.selectedCollection = Null
             THEN Commit(browser, Gone(m), shownFrom)
             ELSE Commit(loadPointsStart(browser),
                         Gone(m) (+) SetToBag({
                             Message("loadPoints", loadPointsRequest(m.closure),
                                     PageClosure(m.closure))}),
                         shownFrom)
    /\ UNCHANGED <<store, downloaded, scanned, apart>>

\* handleDeletePoint resumes after deletePoint: handleSearch in search mode,
\* else loadPoints (both read from the closure)
DeletePointReturns ==
    /\ \E m \in Answered :
          /\ m.handler = "handleDeletePoint"
          /\ IF Thrown(m.response)
             THEN Commit([browser EXCEPT !.error = m.response.detail], Gone(m),
                         shownFrom)
             ELSE IF m.closure.isSearchMode
             THEN IF canSearch(m.closure)
                  THEN Commit(handleSearchStart(browser),
                              Gone(m) (+) SetToBag({
                                  Message("handleSearch", searchRequestOf(m.closure),
                                          SearchClosure(m.closure))}),
                              shownFrom)
                  ELSE Commit(browser, Gone(m), shownFrom)
             ELSE Commit(loadPointsStart(browser),
                         Gone(m) (+) SetToBag({
                             Message("loadPoints", loadPointsRequest(m.closure),
                                     PageClosure(m.closure))}),
                         shownFrom)
    /\ UNCHANGED <<store, downloaded, scanned, apart>>

\* handleExportCollection resumes: the blob is downloaded unless
\* exportCollection threw
ExportReturns ==
    /\ \E m \in Answered :
          /\ m.handler = "handleExportCollection"
          /\ LET result == exportCollection(m.response)
             IN /\ Commit(handleExportCollectionDone(browser, result), Gone(m),
                          shownFrom)
                /\ downloaded' =
                      IF result.thrown
                      THEN downloaded
                      ELSE [collection |-> m.request.collection, blob |-> result.blob]
    /\ UNCHANGED <<store, scanned, apart>>

(***************************************************************************)
(* ApiService.searchPoints (similarity search): no page of the front end   *)
(* calls it; a caller outside passes it a SearchRequest.  The backend side *)
(* is modelled from the specification, section 4.5.                        *)
(***************************************************************************)
\* the query vectors a caller may pass: of the collection's dimension, one
\* shorter and one longer
QueryVectors ==
    {[i \in 1..n |-> 1] : n \in (VecDim - 1)..(VecDim + 1)}
        \cup {[i \in 1..VecDim |-> IF i = 1 THEN 1 ELSE 0]}

NoCall == [collection |-> Null]
NoRead == [read |-> FALSE]
NoOutcome == [thrown |-> FALSE, called |-> FALSE]

Dot(u, v) == LET RECURSIVE Sum(_)
                 Sum(i) == IF i = 0 THEN 0 ELSE u[i] * v[i] + Sum(i - 1)
             IN Sum(Min(Len(u), Len(v)))

\* the driver's vectorQuery: ranking and scores are the driver's own; the
\* model scores by dot product and keeps the first limit points that pass
\* the threshold
vectorQuery(pts, vector, limit, threshold) ==
    LET scored == [i \in 1..Len(pts) |->
                      [PointInfoOf(pts[i], TRUE, FALSE)
                          EXCEPT !.score = <<Dot(vector, pts[i].vector)>>]]
        passed == SelectSeq(scored,
                      LAMBDA p : threshold = <<>> \/ p.score[1] >= threshold[1])
    IN SubSeq(passed, 1, Min(limit, Len(passed)))

\* a variant of 4.5 that lets a longer query vector through
DimensionAtLeast(name, pts, vector) ==
    Len(vector) >= CollectionInfoOf(name, pts).vector_size

\* 4.5 the length of the query vector is validated against the collection's
\* vector_size before dispatch
DimensionMatches(name, pts, vector) ==
    Len(vector) = CollectionInfoOf(name, pts).vector_size

\* a caller invokes ApiService.searchPoints
CallSearchPoints ==
    /\ InFlight < MaxInFlight
    /\ \E c \in DOMAIN store, v \in QueryVectors, limit \in {1},
          threshold \in {<<>>, <<2>>} :
          net' = Sent(Message("searchPoints",
                     searchPoints(configName,
                         [collection_name |-> c, query_vector |-> v,
                          limit |-> limit, score_threshold |-> threshold]),
                     NoClosure))
    /\ UNCHANGED <<store, browser, downloaded, shownFrom, scanned, apart>>

\* 4.5 similaritySearch: validate, then delegate to the driver
BackendSimilarity ==
    /\ \E m \in Pending :
          /\ m.request.kind = "search"
          /\ LET r == m.request.body
             IN IF ~Known(r.collection_name)
                THEN /\ net' = Answer(m, NotFound, <<>>)
                     /\ driverCall' = driverCall
                ELSE IF ~DimensionMatches(r.collection_name, store[r.collection_name],
                                          r.query_vector)
                THEN /\ net' = Answer(m, [ok |-> FALSE, detail |-> "DimensionMismatch"],
                                      <<>>)
                     /\ driverCall' = driverCall
                ELSE /\ net' = Answer(m,
                            [ok |-> TRUE,
                             results |-> vectorQuery(store[r.collection_name],
                                             r.query_vector, r.limit, r.score_threshold)],
                            store[r.collection_name])
                     /\ driverCall' = [collection |-> r.collection_name,
                                       vector |-> r.query_vector, limit |-> r.limit,
                                       threshold |-> r.score_threshold]
    /\ UNCHANGED <<store, browser, downloaded, shownFrom, scanned, outcome, probe,
                   pageRead, aside>>

\* the caller's await of searchPoints ends: the results, or the thrown error
SearchPointsReturns ==
    /\ \E m \in Answered :
          /\ m.handler = "searchPoints"
          /\ net' = Gone(m)
          /\ outcome' = IF Thrown(m.response)
                        THEN [thrown |-> TRUE, called |-> TRUE,
                              message |-> m.response.detail,
                              request |-> m.request.body]
                        ELSE [thrown |-> FALSE, called |-> TRUE,
                              results |-> m.response.results,
                              request |-> m.request.body]
    /\ UNCHANGED <<store, browser, downloaded, shownFrom, scanned, driverCall, probe,
                   pageRead, aside>>

(***************************************************************************)
(* ApiService.getPoints called with any limit: the method takes the limit  *)
(* as a parameter and passes it on as it is.                               *)
(***************************************************************************)
\* the limits a caller may pass: the ends of the range and their neighbours
PageLimits == {0, 1, pointsPerPage, 1000, 1001}

\* a caller invokes ApiService.getPoints
CallGetPoints ==
    /\ InFlight < MaxInFlight
    /\ \E c \in DOMAIN store, limit \in PageLimits :
          net' = Sent(Message("getPoints",
                     getPoints(configName, c, limit, 0, TRUE, FALSE), NoClosure))
    /\ UNCHANGED <<store, browser, downloaded, shownFrom, scanned, apart>>

\* the caller's await of getPoints ends: the page, or the thrown error
GetPointsReturns ==
    /\ \E m \in Answered :
          /\ m.handler = "getPoints"
          /\ net' = Gone(m)
          /\ outcome' = IF Thrown(m.response)
                        THEN [thrown |-> TRUE, called |-> TRUE,
                              message |-> m.response.detail,
                              request |-> m.request]
                        ELSE [thrown |-> FALSE, called |-> TRUE,
                              results |-> m.response.points,
                              request |-> m.request]
    /\ UNCHANGED <<store, browser, downloaded, shownFrom, scanned, driverCall, probe,
                   pageRead, aside>>

(***************************************************************************)
(* The substring search on its own: one needle, a case variant of it, a    *)
(* small collection and a maxResults, searched in both modes.              *)
(***************************************************************************)
MaxNeedle == 2
MaxTitle == 2

Alphabet == {"a", "A", "b"}

Words(n) == UNION {[1..k -> Alphabet] : k \in 0..n}

NoProbe == [done |-> FALSE]

ProbePoints(titles) == [i \in 1..Len(titles) |-> StoredPoint(ToString(i), titles[i], 1)]

\* the searches and the matcher applied to the probe
Match ==
    /\ probe # NoProbe
    /\ ~probe.done
    /\ LET pts == ProbePoints(probe.titles)
           cs == search(pts, probe.needle, TRUE, probe.maxResults)
           ci == search(pts, probe.needle, FALSE, probe.maxResults)
           cv == search(pts, probe.variant, FALSE, probe.maxResults)
       IN probe' = [probe EXCEPT
                       !.done = TRUE,
                       !.sensitive = cs,
                       !.insensitive = ci,
                       !.insensitiveVariant = cv,
                       !.sensitiveHit =
                           [i \in 1..Len(pts) |->
                               MatchesPayload(pts[i].payload, probe.needle, TRUE)],
                       !.insensitiveHit =
                           [i \in 1..Len(pts) |->
                               MatchesPayload(pts[i].payload, probe.needle, FALSE)]]
    /\ UNCHANGED <<store, net, browser, downloaded, shownFrom, scanned,
                   driverCall, outcome, pageRead, aside>>

(***************************************************************************)
(* Instances: the backend's registry (section 4.1), ApiService's instance  *)
(* and config methods, the ConfigProvider and the Welcome page.            *)
(***************************************************************************)
nA == <<"a">>
nB == <<"b">>
nBspace == <<"b", " ">>
uOne == <<"1">>
uTwo == <<"2">>

\* what the user may type into the Name and URL fields of the form
FormNames == {nA, nB, nBspace}
FormUrls == {uOne, uTwo}

\* InstanceConfig / QdrantConfig
Descriptor(n, u) == [name |-> n, url |-> u, api_key |-> Null, type |-> "qdrant"]

InstanceNames == {nA, nB}
Descriptors == {Descriptor(n, u) : n \in InstanceNames, u \in FormUrls}

NamesOf(list) == {list[i].name : i \in 1..Len(list)}

\* no two descriptors of a list share a name
UniqueNames(list) ==
    \A i, j \in 1..Len(list) : list[i].name = list[j].name => i = j

\* ApiService.addInstance
apiAddInstance(instance) == [kind |-> "addInstance", instance |-> instance]

\* ApiService.deleteInstance
apiDeleteInstance(name) == [kind |-> "deleteInstance", name |-> name]

\* ApiService.getInstances
apiGetInstances == [kind |-> "getInstances"]

\* ApiService.listConfigs
apiListConfigs == [kind |-> "listConfigs"]

\* ApiService.getConfig
apiGetConfig(name) == [kind |-> "getConfig", name |-> name]

\* the useState initial values of the ConfigProvider
InitialContext == [instances |-> <<>>, configs |-> <<>>]

\* a variant of addInstance that appends without filtering
addInstanceAppending(prev, instance) == Append(prev, instance)

\* ConfigProvider.addInstance: filter out the name, then append
addInstance(prev, instance) ==
    Append(SelectSeq(prev, LAMBDA i : i.name # instance.name), instance)

\* ConfigProvider.addConfig: filter out the name, then append
addConfig(prev, config) ==
    Append(SelectSeq(prev, LAMBDA c : c.name # config.name), config)

\* a variant of removeInstance that drops the first entry whatever its name
removeInstanceFirst(prev, name) == IF prev = <<>> THEN prev ELSE Tail(prev)

\* ConfigProvider.removeInstance
removeInstance(prev, name) == SelectSeq(prev, LAMBDA i : i.name # name)

\* ConfigProvider.removeConfig
removeConfig(prev, name) == SelectSeq(prev, LAMBDA c : c.name # name)

\* the router's location of the Welcome page
Root == <<"/">>

\* what find returns when nothing matches
Undefined == [undefined |-> TRUE]

\* Array.prototype.find: the first entry of that name, or undefined
Find(list, name) ==
    LET hits == SelectSeq(list, LAMBDA d : d.name = name)
    IN IF hits = <<>> THEN Undefined ELSE Head(hits)

\* ConfigProvider.getConfig
getConfig(c, name) == Find(c.configs, name)

\* a variant of currentConfig that takes the first instance whatever its name
currentConfigFirst(c, name) ==
    IF c.instances # <<>> THEN Head(c.instances) ELSE getConfig(c, name)

\* Browser: currentConfig = instance || config
currentConfig(c, name) ==
    IF Find(c.instances, name) # Undefined THEN Find(c.instances, name)
    ELSE getConfig(c, name)

\* the useState initial values of the Welcome page
EmptyForm == [name |-> <<>>, url |-> <<>>, api_key |-> <<>>, type |-> "qdrant"]

InitialWelcome ==
    [isAdding |-> FALSE, isLoading |-> FALSE, error |-> Null, formData |-> EmptyForm]

\* handleSubmit builds the instance from the trimmed fields
instanceOf(formData) ==
    [name |-> trim(formData.name), url |-> trim(formData.url),
     api_key |-> IF trim(formData.api_key) = <<>> THEN Null ELSE trim(formData.api_key),
     type |-> formData.type]

\* handleSubmit up to its first await
handleSubmitStart(w) == [w EXCEPT !.isLoading = TRUE, !.error = Null]

\* a variant of handleSubmitFailed without the finally block
handleSubmitFailedStuck(w, resp) == [w EXCEPT !.error = resp.detail]

\* handleSubmit when addInstance threw: catch, then finally
handleSubmitFailed(w, resp) == [w EXCEPT !.error = resp.detail, !.isLoading = FALSE]

\* handleSubmit after refreshInstances: the form closes and empties, finally
handleSubmitDone(w) ==
    [w EXCEPT !.isAdding = FALSE, !.formData = EmptyForm, !.isLoading = FALSE]

\* handleDelete when deleteInstance threw
handleDeleteFailed(w, resp) == [w EXCEPT !.error = resp.detail]

\* the error box of the Welcome page is inside the Add Instance dialog
WelcomeErrorShown(w) == w.isAdding /\ w.error # Null

\* the rest of the model, which these steps leave alone
rest == <<store, downloaded, shownFrom, scanned, driverCall, probe, pageRead>>
page == <<browser, outcome, rest>>

\* the handlers of the Browser page; their in-flight calls no longer reach
\* any state once the page is unmounted
BrowserHandlers ==
    {"loadCollections", "loadPoints", "handleSearch", "handleDeleteCollection",
     "handleDeleteCollection.reload", "handleClearCollection", "handleDeletePoint",
     "handleExportCollection"}

Unmounted(bag) ==
    [m \in {x \in DOMAIN bag : x.handler \notin BrowserHandlers} |-> bag[m]]

\* a render of the provider with new lists, then the Browser's first effect
\* when the page is mounted: navigate('/') if the name no longer resolves,
\* loadCollections again if currentConfig is another object (renewed)
Provide(newCtx, netAfter, renewed) ==
    /\ ctx' = newCtx
    /\ IF route = Root
       THEN /\ net' = netAfter
            /\ UNCHANGED <<route, browser>>
       ELSE IF currentConfig(newCtx, route) = Undefined
       THEN /\ route' = Root
            /\ browser' = InitialBrowser
            /\ net' = Unmounted(netAfter)
       ELSE IF renewed
       THEN /\ route' = route
            /\ browser' = loadCollectionsStart(browser)
            /\ net' = netAfter (+) SetToBag({
                   Message("loadCollections", getCollections(route), NoClosure)})
       ELSE /\ net' = netAfter
            /\ UNCHANGED <<route, browser>>

\* the lists of a response are new objects: an instance found in them is
\* another object than the one found before
Renewed(newCtx) == Find(newCtx.instances, route) # Undefined

\* the Add Instance buttons
ClickAddInstance ==
    /\ route = Root
    /\ ~welcome.isAdding
    /\ welcome' = [welcome EXCEPT !.isAdding = TRUE]
    /\ UNCHANGED <<net, registry, ctx, route, page>>

\* the Cancel and close buttons of the dialog
ClickCancel ==
    /\ route = Root
    /\ welcome.isAdding
    /\ welcome' = [welcome EXCEPT !.isAdding = FALSE]
    /\ UNCHANGED <<net, registry, ctx, route, page>>

\* typing into the Name and URL fields
TypeForm ==
    /\ route = Root
    /\ welcome.isAdding
    /\ \E n \in FormNames, u \in FormUrls :
          /\ welcome.formData # [EmptyForm EXCEPT !.name = n, !.url = u]
          /\ welcome' = [welcome EXCEPT !.formData = [EmptyForm EXCEPT !.name = n, !.url = u]]
    /\ UNCHANGED <<net, registry, ctx, route, page>>

\* handleSubmit (the submit button is disabled while isLoading; name and url
\* are required)
HandleSubmit ==
    /\ route = Root
    /\ welcome.isAdding
    /\ ~welcome.isLoading
    /\ welcome.formData.name # <<>>
    /\ welcome.formData.url # <<>>
    /\ InFlight < MaxInFlight
    /\ welcome' = handleSubmitStart(welcome)
    /\ net' = Sent(Message("handleSubmit", apiAddInstance(instanceOf(welcome.formData)),
                           NoClosure))
    /\ UNCHANGED <<registry, ctx, route, page>>

\* handleDelete, confirmed: the Delete button of a listed instance (covered
\* by the Add Instance dialog when that is open)
HandleDelete ==
    /\ route = Root
    /\ ~welcome.isAdding
    /\ InFlight < MaxInFlight
    /\ \E name \in NamesOf(ctx.instances) :
          net' = Sent(Message("handleDelete", apiDeleteInstance(name), NoClosure))
    /\ UNCHANGED <<registry, ctx, welcome, route, page>>

\* the router enters /browser/name: the Welcome page is unmounted (it is
\* mounted anew, in its initial state, at '/'), the Browser mounts and its
\* first effect runs, navigate('/') when nothing resolves, loadCollections
\* otherwise
Enter(name) ==
    /\ outcome' = [called |-> TRUE, thrown |-> FALSE,
                   request |-> [kind |-> "navigate", name |-> name]]
    /\ IF currentConfig(ctx, name) = Undefined
       THEN /\ route' = Root
            /\ UNCHANGED <<net, browser>>
       ELSE /\ InFlight < MaxInFlight
            /\ route' = name
            /\ browser' = loadCollectionsStart(InitialBrowser)
            /\ net' = Sent(Message("loadCollections", getCollections(name), NoClosure))
    /\ welcome' = InitialWelcome
    /\ UNCHANGED <<registry, ctx, rest>>

\* openBrowser: the Open button of a listed instance (the Add Instance
\* dialog, when open, covers the list)
OpenBrowser ==
    /\ route = Root
    /\ ~welcome.isAdding
    /\ \E name \in NamesOf(ctx.instances) : Enter(name)

\* the location is set to /browser/name from outside the page (history)
VisitUrl ==
    /\ route = Root
    /\ \E name \in InstanceNames : Enter(name)

\* the Back button of the Browser: the page is unmounted
ClickBack ==
    /\ route # Root
    /\ route' = Root
    /\ browser' = InitialBrowser
    /\ net' = Unmounted(net)
    /\ UNCHANGED <<registry, ctx, welcome, outcome, rest>>

\* a consumer of the context calls addInstance
AddInstanceOf(instance) ==
    /\ Provide([ctx EXCEPT !.instances = addInstance(@, instance)], net,
               instance.name = route)
    /\ ctx' # ctx
    /\ BagCardinality(net') <= MaxInFlight
    /\ UNCHANGED <<registry, welcome, outcome, rest>>

AddInstance == \E instance \in Descriptors : AddInstanceOf(instance)

\* a consumer of the context calls removeInstance
RemoveInstanceOf(name) ==
    /\ Provide([ctx EXCEPT !.instances = removeInstance(@, name)], net,
               name = route /\ Find(ctx.instances, route) # Undefined)
    /\ BagCardinality(net') <= MaxInFlight
    /\ UNCHANGED <<registry, welcome, outcome, rest>>

RemoveInstance == \E name \in InstanceNames : RemoveInstanceOf(name)

\* a consumer of the context calls addConfig
AddConfigOf(config) ==
    /\ Provide([ctx EXCEPT !.configs = addConfig(@, config)], net,
               config.name = route /\ Find(ctx.instances, route) = Undefined)
    /\ ctx' # ctx
    /\ BagCardinality(net') <= MaxInFlight
    /\ UNCHANGED <<registry, welcome, outcome, rest>>

AddConfig == \E config \in Descriptors : AddConfigOf(config)

\* a consumer of the context calls removeConfig
RemoveConfigOf(name) ==
    /\ Provide([ctx EXCEPT !.configs = removeConfig(@, name)], net, FALSE)
    /\ UNCHANGED <<registry, welcome, outcome, rest>>

RemoveConfig == \E name \in InstanceNames : RemoveConfigOf(name)

\* a consumer of the context calls refreshInstances
RefreshInstances ==
    /\ InFlight < MaxInFlight
    /\ net' = Sent(Message("refreshInstances", apiGetInstances, NoClosure))
    /\ UNCHANGED <<registry, ctx, welcome, route, page>>

\* a consumer of the context calls refreshConfigs
RefreshConfigs ==
    /\ InFlight < MaxInFlight
    /\ net' = Sent(Message("refreshConfigs", apiListConfigs, NoClosure))
    /\ UNCHANGED <<registry, ctx, welcome, route, page>>

\* register (4.1): DuplicateName if the name exists
BackendAddInstance ==
    /\ \E m \in Pending :
          /\ m.request.kind = "addInstance"
          /\ IF m.request.instance.name \in NamesOf(registry)
             THEN /\ net' = Answer(m, [ok |-> FALSE, detail |-> "DuplicateName"], registry)
                  /\ registry' = registry
             ELSE /\ net' = Answer(m, [ok |-> TRUE], registry)
                  /\ registry' = Append(registry, m.request.instance)
    /\ UNCHANGED <<ctx, welcome, route, page>>

\* unregister (4.1): idempotent, no error if the name is absent
BackendDeleteInstance ==
    /\ \E m \in Pending :
          /\ m.request.kind = "deleteInstance"
          /\ net' = Answer(m, [ok |-> TRUE], registry)
          /\ registry' = SelectSeq(registry, LAMBDA d : d.name # m.request.name)
    /\ UNCHANGED <<ctx, welcome, route, page>>

\* list the instances (6)
BackendInstances ==
    /\ \E m \in Pending :
          /\ m.request.kind = "getInstances"
          /\ net' = Answer(m, [ok |-> TRUE, instances |-> registry], registry)
    /\ UNCHANGED <<registry, ctx, welcome, route, page>>

\* the configurations kept for backward compatibility
LegacyConfigs == <<Descriptor(nB, uOne)>>

\* list the names of the legacy configurations
BackendListConfigs ==
    /\ \E m \in Pending :
          /\ m.request.kind = "listConfigs"
          /\ net' = Answer(m,
                [ok |-> TRUE,
                 configs |-> [i \in 1..Len(LegacyConfigs) |-> LegacyConfigs[i].name]],
                <<>>)
    /\ UNCHANGED <<registry, ctx, welcome, route, page>>

\* one legacy configuration by name
BackendGetConfig ==
    /\ \E m \in Pending :
          /\ m.request.kind = "getConfig"
          /\ net' = Answer(m,
                IF Find(LegacyConfigs, m.request.name) = Undefined THEN NotFound
                ELSE [ok |-> TRUE, config |-> Find(LegacyConfigs, m.request.name)],
                <<>>)
    /\ UNCHANGED <<registry, ctx, welcome, route, page>>

\* refreshInstances after its await: setInstances, or console.error only
refreshInstancesDone(c, resp) ==
    IF Thrown(resp) THEN c ELSE [c EXCEPT !.instances = resp.instances]

\* a refreshInstances call (mount effect or consumer) resumes
RefreshInstancesReturns ==
    /\ \E m \in Answered :
          /\ m.handler = "refreshInstances"
          /\ Provide(refreshInstancesDone(ctx, m.response), Gone(m),
                     ~Thrown(m.response) /\ Renewed(refreshInstancesDone(ctx, m.response)))
    /\ BagCardinality(net') <= MaxInFlight
    /\ UNCHANGED <<registry, welcome, outcome, rest>>

\* refreshConfigs after listConfigs: the first getConfig, or setConfigs([])
\* when there is no name, or console.error only
ListConfigsReturns ==
    /\ \E m \in Answered :
          /\ m.handler = "refreshConfigs"
          /\ IF Thrown(m.response)
             THEN /\ net' = Gone(m)
                  /\ UNCHANGED <<ctx, route, browser>>
             ELSE IF m.response.configs = <<>>
             THEN Provide([ctx EXCEPT !.configs = <<>>], Gone(m), FALSE)
             ELSE /\ net' = Gone(m) (+) SetToBag({
                         Message("refreshConfigs.getConfig",
                                 apiGetConfig(Head(m.response.configs)),
                                 [rest |-> Tail(m.response.configs),
                                  configsList |-> <<>>])})
                  /\ UNCHANGED <<ctx, route, browser>>
    /\ UNCHANGED <<registry, welcome, outcome, rest>>

\* the loop body of refreshConfigs: push the config, or console.error only
configsListAfter(m) ==
    IF Thrown(m.response) THEN m.closure.configsList
    ELSE Append(m.closure.configsList, m.response.config)

\* refreshConfigs after a getConfig: the next name, or setConfigs(configsList)
GetConfigReturns ==
    /\ \E m \in Answered :
          /\ m.handler = "refreshConfigs.getConfig"
          /\ IF m.closure.rest = <<>>
             THEN Provide([ctx EXCEPT !.configs = configsListAfter(m)], Gone(m),
                          Find(ctx.instances, route) = Undefined
                             /\ Find(configsListAfter(m), route) # Undefined)
             ELSE /\ net' = Gone(m) (+) SetToBag({
                         Message("refreshConfigs.getConfig",
                                 apiGetConfig(Head(m.closure.rest)),
                                 [rest |-> Tail(m.closure.rest),
                                  configsList |-> configsListAfter(m)])})
                  /\ UNCHANGED <<ctx, route, browser>>
    /\ BagCardinality(net') <= MaxInFlight
    /\ UNCHANGED <<registry, welcome, outcome, rest>>

\* a state update of the Welcome page does nothing once it is unmounted
Mounting(w) == IF route = Root THEN w ELSE welcome

\* handleSubmit after addInstance: refreshInstances, or the error
HandleSubmitReturns ==
    /\ \E m \in Answered :
          /\ m.handler = "handleSubmit"
          /\ IF Thrown(m.response)
             THEN /\ welcome' = Mounting(handleSubmitFailed(welcome, m.response))
                  /\ net' = Gone(m)
             ELSE /\ welcome' = welcome
                  /\ net' = Gone(m) (+) SetToBag({
                         Message("handleSubmit.refreshInstances", apiGetInstances,
                                 NoClosure)})
    /\ UNCHANGED <<registry, ctx, route, page>>

\* handleSubmit after refreshInstances, which never throws: the form closes
HandleSubmitRefreshed ==
    /\ \E m \in Answered :
          /\ m.handler = "handleSubmit.refreshInstances"
          /\ Provide(refreshInstancesDone(ctx, m.response), Gone(m),
                     ~Thrown(m.response) /\ Renewed(refreshInstancesDone(ctx, m.response)))
          /\ welcome' = Mounting(handleSubmitDone(welcome))
    /\ BagCardinality(net') <= MaxInFlight
    /\ UNCHANGED <<registry, outcome, rest>>

\* handleDelete after deleteInstance: refreshInstances, or the error
HandleDeleteReturns ==
    /\ \E m \in Answered :
          /\ m.handler = "handleDelete"
          /\ IF Thrown(m.response)
             THEN /\ welcome' = Mounting(handleDeleteFailed(welcome, m.response))
                  /\ net' = Gone(m)
             ELSE /\ welcome' = welcome
                  /\ net' = Gone(m) (+) SetToBag({
                         Message("handleDelete.refreshInstances", apiGetInstances,
                                 NoClosure)})
    /\ UNCHANGED <<registry, ctx, route, page>>

\* handleDelete after refreshInstances
HandleDeleteRefreshed ==
    /\ \E m \in Answered :
          /\ m.handler = "handleDelete.refreshInstances"
          /\ Provide(refreshInstancesDone(ctx, m.response), Gone(m),
                     ~Thrown(m.response) /\ Renewed(refreshInstancesDone(ctx, m.response)))
    /\ BagCardinality(net') <= MaxInFlight
    /\ UNCHANGED <<registry, welcome, outcome, rest>>

\* the ConfigProvider's mount effect: refreshInstances and refreshConfigs
MountRequests ==
    SetToBag({Message("refreshInstances", apiGetInstances, NoClosure),
              Message("refreshConfigs", apiListConfigs, NoClosure)})

\* the application at '/' over a backend that holds reg, the provider holding
\* c, with the requests n in flight
Arrived(reg, c, n) ==
    /\ store = [col \in {"docs"} |-> DocsPoints]
    /\ browser = InitialBrowser
    /\ net = n
    /\ downloaded = NoDownload
    /\ shownFrom = NoSource
    /\ scanned = NoScan
    /\ driverCall = NoCall
    /\ outcome = NoOutcome
    /\ pageRead = NoRead
    /\ probe = NoProbe
    /\ registry = reg
    /\ ctx = c
    /\ welcome = InitialWelcome
    /\ route = Root

\* after mount: the provider's effect has run, its lists are still empty
Welcomed(reg) == Arrived(reg, InitialContext, MountRequests)

\* once the provider's two refreshes have been applied
Loaded(reg) == Arrived(reg, [instances |-> reg, configs |-> LegacyConfigs], EmptyBag)

InitWelcome == \E reg \in {<<>>, <<Descriptor(nA, uOne)>>} : Welcomed(reg)

\* the same with two instances registered before
InitRegistered == Welcomed(<<Descriptor(nA, uOne), Descriptor(nB, uTwo)>>)

(***************************************************************************)
(* The page after mount: the first useEffect has called loadCollections.   *)
(***************************************************************************)
Mounted(st) ==
    /\ store = st
    /\ browser = loadCollectionsStart(InitialBrowser)
    /\ net = SetToBag({Message("loadCollections", getCollections(localName),
                               NoClosure)})
    /\ downloaded = NoDownload
    /\ shownFrom = NoSource
    /\ scanned = NoScan
    /\ driverCall = NoCall
    /\ outcome = NoOutcome
    /\ pageRead = NoRead
    /\ registry = <<Descriptor(localName, uOne)>>
    /\ ctx = [instances |-> registry, configs |-> <<>>]
    /\ welcome = InitialWelcome
    /\ route = localName

Init == Mounted(InitialStore) /\ probe = NoProbe

User ==
    \/ ClickRefresh
    \/ ClickCollection
    \/ ClickShowVectors
    \/ TypeSearchText
    \/ ClickCaseSensitive
    \/ HandleSearch
    \/ ClickClearSearch
    \/ ClickPrevious
    \/ ClickNext
    \/ ClickDeletePoint
    \/ ClickClearCollection
    \/ ClickDeleteCollection
    \/ ClickExport
    \/ CallSearchPoints
    \/ CallGetPoints

Backend ==
    \/ BackendFails
    \/ BackendCollections
    \/ BackendPoints
    \/ BackendTextSearch
    \/ BackendDeletePoint
    \/ BackendClearCollection
    \/ BackendDeleteCollection
    \/ BackendExport
    \/ BackendSimilarity

Returns ==
    \/ LoadCollectionsReturns
    \/ LoadPointsReturns
    \/ HandleSearchReturns
    \/ DeleteCollectionReturns
    \/ DeleteCollectionReloaded
    \/ ClearCollectionReturns
    \/ DeletePointReturns
    \/ ExportReturns
    \/ SearchPointsReturns
    \/ GetPointsReturns

\* everything the page, its callers and the backend can do
Next == User \/ Backend \/ Returns

Spec == Init /\ [][Next]_vars

\* the page opened on a backend that holds the docs collection only
InitDocs == Mounted([c \in {"docs"} |-> DocsPoints]) /\ probe = NoProbe

(***************************************************************************)
(* Browsing the pages of static collections.                               *)
(***************************************************************************)
InitPaging ==
    /\ \E n \in 0..Len(DocsPoints) :
          Mounted([c \in {"docs", "misc"} |->
                      IF c = "docs" THEN SubSeq(DocsPoints, 1, n) ELSE MiscPoints])
    /\ probe = NoProbe

NextPaging ==
    \/ ClickRefresh
    \/ ClickCollection
    \/ ClickShowVectors
    \/ ClickPrevious
    \/ ClickNext
    \/ BackendFails
    \/ BackendCollections
    \/ BackendPoints
    \/ LoadCollectionsReturns
    \/ LoadPointsReturns

SpecPaging == InitPaging /\ [][NextPaging]_vars

(***************************************************************************)
(* Text search in a static collection.                                     *)
(***************************************************************************)
NextSearch ==
    \/ ClickCollection
    \/ TypeSearchText
    \/ ClickCaseSensitive
    \/ HandleSearch
    \/ ClickClearSearch
    \/ BackendFails
    \/ BackendCollections
    \/ BackendPoints
    \/ BackendTextSearch
    \/ LoadCollectionsReturns
    \/ LoadPointsReturns
    \/ HandleSearchReturns

SpecSearch == InitDocs /\ [][NextSearch]_vars

(***************************************************************************)
(* Text search in a collection that may be cleared meanwhile.              *)
(***************************************************************************)
NextSearchCleared ==
    \/ NextSearch
    \/ ClickClearCollection
    \/ BackendClearCollection
    \/ ClearCollectionReturns

SpecSearchCleared == InitDocs /\ [][NextSearchCleared]_vars

(***************************************************************************)
(* Exporting collections that may be cleared or deleted meanwhile.         *)
(***************************************************************************)
NextExport ==
    \/ ClickRefresh
    \/ ClickExport
    \/ ClickClearCollection
    \/ ClickDeleteCollection
    \/ BackendFails
    \/ BackendCollections
    \/ BackendExport
    \/ BackendClearCollection
    \/ BackendDeleteCollection
    \/ LoadCollectionsReturns
    \/ ExportReturns
    \/ ClearCollectionReturns
    \/ DeleteCollectionReturns
    \/ DeleteCollectionReloaded

SpecExport == InitDocs /\ [][NextExport]_vars

(***************************************************************************)
(* Similarity search through ApiService.searchPoints.                      *)
(***************************************************************************)
NextSimilarity ==
    \/ CallSearchPoints
    \/ BackendFails
    \/ BackendSimilarity
    \/ SearchPointsReturns
    \/ BackendCollections
    \/ LoadCollectionsReturns

SpecSimilarity == InitDocs /\ [][NextSimilarity]_vars

(***************************************************************************)
(* Page fetches with limits in and out of range, next to the browser's.    *)
(***************************************************************************)
NextLimit ==
    \/ CallGetPoints
    \/ ClickCollection
    \/ ClickNext
    \/ BackendFails
    \/ BackendCollections
    \/ BackendPoints
    \/ GetPointsReturns
    \/ LoadCollectionsReturns
    \/ LoadPointsReturns

SpecLimit == InitDocs /\ [][NextLimit]_vars

(***************************************************************************)
(* The matcher on every needle and payload of the bounded alphabet.        *)
(***************************************************************************)
(* The ConfigProvider alone: its operations called by a consumer, and its  *)
(* two refreshes.                                                          *)
(***************************************************************************)
NextContext ==
    \/ AddInstance
    \/ RemoveInstance
    \/ AddConfig
    \/ RemoveConfig
    \/ RefreshInstances
    \/ RefreshConfigs
    \/ BackendFails
    \/ BackendInstances
    \/ BackendListConfigs
    \/ BackendGetConfig
    \/ RefreshInstancesReturns
    \/ ListConfigsReturns
    \/ GetConfigReturns

SpecContext == InitWelcome /\ [][NextContext]_vars

(***************************************************************************)
(* Removing instances: the provider's removeInstance and removeConfig, and *)
(* the Delete button of the Welcome page.                                  *)
(***************************************************************************)
NextUnregister ==
    \/ RemoveInstance
    \/ RemoveConfig
    \/ RefreshInstances
    \/ HandleDelete
    \/ BackendFails
    \/ BackendDeleteInstance
    \/ BackendInstances
    \/ BackendListConfigs
    \/ BackendGetConfig
    \/ RefreshInstancesReturns
    \/ ListConfigsReturns
    \/ GetConfigReturns
    \/ HandleDeleteReturns
    \/ HandleDeleteRefreshed

SpecUnregister == InitRegistered /\ [][NextUnregister]_vars

(***************************************************************************)
(* Resolving a name: the Open button, a location entered from outside, the *)
(* Back button, while the provider's lists load and change.                *)
(***************************************************************************)
NextResolve ==
    \/ OpenBrowser
    \/ VisitUrl
    \/ ClickBack
    \/ RemoveInstance
    \/ RefreshInstances
    \/ BackendFails
    \/ BackendInstances
    \/ BackendListConfigs
    \/ BackendGetConfig
    \/ BackendCollections
    \/ RefreshInstancesReturns
    \/ ListConfigsReturns
    \/ GetConfigReturns
    \/ LoadCollectionsReturns

SpecResolve == InitWelcome /\ [][NextResolve]_vars

(***************************************************************************)
(* Progress: an instance is added on the Welcome page, the Browser is      *)
(* opened, collections and pages are loaded and searched.  Every request   *)
(* sent is answered (the backend bounds each of its calls by a timeout,    *)
(* section 7, and a lost connection rejects the fetch), and every answer   *)
(* resumes the handler that awaits it.                                     *)
(***************************************************************************)
BrowserOpen == route # Root

NextLive ==
    \/ ClickAddInstance
    \/ TypeForm /\ welcome'.formData.url = uTwo /\ welcome'.formData.name # nBspace
    \/ HandleSubmit
    \/ OpenBrowser
    \/ BrowserOpen /\ ClickCollection
    \/ BrowserOpen /\ TypeSearchText /\ browser'.searchText = sApple
    \/ BrowserOpen /\ HandleSearch
    \/ BackendFails
    \/ BackendAddInstance
    \/ BackendInstances
    \/ BackendCollections
    \/ BackendPoints
    \/ BackendTextSearch
    \/ HandleSubmitReturns
    \/ HandleSubmitRefreshed
    \/ LoadCollectionsReturns
    \/ LoadPointsReturns
    \/ HandleSearchReturns

\* a request of one of these kinds awaits its answer
Awaits(kinds) == \E m \in Pending : m.request.kind \in kinds

\* a step that answers a request of one of these kinds, with the endpoint's
\* result or with a failure
AnsweredStep(kinds) ==
    \E m \in Pending :
       m.request.kind \in kinds /\ CopiesIn(m, net') < CopiesIn(m, net)

\* weak fairness of AnsweredStep, which is enabled exactly when a request of
\* these kinds awaits its answer
Fair(kinds) == []<>~Awaits(kinds) \/ []<><<AnsweredStep(kinds)>>_vars

\* every request is answered, by its endpoint or by a failure
Answering ==
    /\ Fair({"addInstance", "getInstances"})
    /\ Fair({"getCollections", "getPoints"})
    /\ Fair({"textSearch"})

\* every answer resumes its handler
Resuming ==
    /\ WF_vars(HandleSubmitReturns \/ HandleSubmitRefreshed)
    /\ WF_vars(LoadCollectionsReturns \/ LoadPointsReturns)
    /\ WF_vars(HandleSearchReturns)

InitLive == Loaded(<<Descriptor(nA, uOne)>>)

SpecLive == InitLive /\ [][NextLive]_vars /\ Answering /\ Resuming

(***************************************************************************)
(* Vectors: pages with and without vectors, and search results.            *)
(***************************************************************************)
NextVectors ==
    \/ ClickCollection
    \/ ClickShowVectors
    \/ TypeSearchText /\ browser'.searchText = sApple
    \/ HandleSearch
    \/ ClickClearSearch
    \/ BackendFails
    \/ BackendCollections
    \/ BackendPoints
    \/ BackendTextSearch
    \/ LoadCollectionsReturns
    \/ LoadPointsReturns
    \/ HandleSearchReturns

SpecVectors == InitDocs /\ [][NextVectors]_vars

(***************************************************************************)
(* The Welcome page: adding and deleting instances.                        *)
(***************************************************************************)
NextWelcome ==
    \/ ClickAddInstance
    \/ ClickCancel
    \/ TypeForm /\ welcome'.formData.url = uTwo
    \/ HandleSubmit
    \/ HandleDelete
    \/ BackendFails
    \/ BackendAddInstance
    \/ BackendDeleteInstance
    \/ BackendInstances
    \/ HandleSubmitReturns
    \/ HandleSubmitRefreshed
    \/ HandleDeleteReturns
    \/ HandleDeleteRefreshed

InitLoaded == \E reg \in {<<>>, <<Descriptor(nA, uOne)>>} : Loaded(reg)

SpecWelcome == InitLoaded /\ [][NextWelcome]_vars

(***************************************************************************)
NoSearch == [results |-> <<>>, total |-> 0, searched_total |-> 0]

InitMatch ==
    /\ Mounted(InitialStore)
    /\ \E n \in Words(MaxNeedle) \ {<<>>}, v \in Words(MaxNeedle),
          t \in [1..2 -> Words(MaxTitle)], k \in 1..2 :
          /\ toLowerCase(v) = toLowerCase(n)
          /\ probe = [done |-> FALSE, needle |-> n, variant |-> v, titles |-> t,
                      maxResults |-> k, sensitive |-> NoSearch,
                      insensitive |-> NoSearch, insensitiveVariant |-> NoSearch,
                      sensitiveHit |-> <<>>, insensitiveHit |-> <<>>]

NextMatch == Match

SpecMatch == InitMatch /\ [][NextMatch]_vars

(***************************************************************************)
(* Properties.                                                             *)
(***************************************************************************)
\* the getPoints requests the backend has answered with a page
PagesAnswered ==
    {m \in Answered : m.request.kind = "getPoints" /\ m.response.ok}

RECURSIVE Flatten(_)
Flatten(pages) ==
    IF pages = <<>> THEN <<>> ELSE Head(pages) \o Flatten(Tail(pages))

\* the scan has received every page the pagination control offers for the
\* total reported: the pages of index 0 .. totalPages - 1
ScanComplete ==
    /\ scanned.collection # Null
    /\ Len(scanned.pages) >= totalPages([totalPoints |-> scanned.total])

\* C2: the consecutive pages the browser requests of a static collection
\* (offset = currentPage * pointsPerPage, currentPage = 0 .. totalPages - 1)
\* partition its points: every point is in exactly one page, none is
\* missing, and the pages hold nothing else.
PagesPartition ==
    ScanComplete =>
        LET got == Flatten(scanned.pages)
            pts == store[scanned.collection]
        IN /\ \A i \in 1..Len(pts) :
                  Cardinality({j \in 1..Len(got) : got[j].id = pts[i].id}) = 1
           /\ \A j \in 1..Len(got) : got[j].id \in Ids(pts)
           /\ [j \in 1..Len(got) |-> got[j].id] = [i \in 1..Len(pts) |-> pts[i].id]

\* both pages of the three-point collection have been received in order
BothPagesScanned ==
    /\ ScanComplete
    /\ scanned.total = 3
    /\ Len(scanned.pages) = 2
    /\ Len(scanned.pages[2]) = 1

\* the text searches the backend has answered with a result
SearchesAnswered ==
    {m \in Answered : m.request.kind = "textSearch" /\ m.response.ok}

\* the points a search went through before it stopped
ScannedBy(m) == SubSeq(m.snapshot, 1, m.response.searched_total)

\* what the user asked for: the text typed, trimmed, in the mode ticked
AskedMatch(m, p) ==
    MatchesPayload(p.payload, trim(m.closure.searchText), m.closure.caseSensitive)

IdsOf(pts) == [i \in 1..Len(pts) |-> pts[i].id]

\* C3: the results of a search are exactly the scanned points whose
\* serialized payload contains the text asked for, in the order they were
\* met, each once, with their payload; and for the payloads 'Apple pie',
\* 'apple tart', 'Banana' with maxResults 10, 'apple' case-insensitive
\* matches 2 of 3 scanned and 'Apple' case-sensitive matches 1.
ResultsAreTheMatches ==
    /\ \A m \in SearchesAnswered :
          LET hits == SelectSeq(ScannedBy(m), LAMBDA p : AskedMatch(m, p))
              got == m.response.results
          IN /\ IdsOf(got) = IdsOf(hits)
             /\ \A i, j \in 1..Len(got) : got[i].id = got[j].id => i = j
             /\ \A i \in 1..Len(got) : got[i].payload = hits[i].payload
    /\ LET ci == search(DocsPoints, sapple, FALSE, 10)
           cs == search(DocsPoints, sApple, TRUE, 10)
       IN /\ ci.total = 2 /\ ci.searched_total = 3
          /\ IdsOf(ci.results) = <<"1", "2">>
          /\ cs.total = 1 /\ IdsOf(cs.results) = <<"1">>

\* 'Apple' was searched case-sensitively: all three points scanned, one match
AppleFoundOnce ==
    \E m \in SearchesAnswered :
        /\ m.closure.searchText = sApple
        /\ m.closure.caseSensitive
        /\ m.response.searched_total = 3
        /\ IdsOf(m.response.results) = <<"1">>

StopsAtMaxResults ==
    /\ \A m \in SearchesAnswered :
          LET got == m.response.results
              n == m.response.searched_total
              hits == SelectSeq(ScannedBy(m), LAMBDA p : AskedMatch(m, p))
          IN /\ Len(got) <= m.request.body.limit
             /\ n <= Len(m.snapshot)
             /\ m.response.total = Len(hits)
             /\ Len(got) = m.request.body.limit \/ n = Len(m.snapshot)
             /\ n > 0 /\ Len(got) = m.request.body.limit
                    => got[Len(got)].id = m.snapshot[n].id
    /\ Len(browser.searchResults) <= SearchLimit

\* a search stopped at the limit and left a matching point unscanned
StoppedBeforeAMatch ==
    \E m \in SearchesAnswered :
        /\ Len(m.response.results) = m.request.body.limit
        /\ m.response.searched_total < Len(m.snapshot)
        /\ \E i \in (m.response.searched_total + 1)..Len(m.snapshot) :
               AskedMatch(m, m.snapshot[i])

\* the answer to the search whose results the browser holds, asked again of
\* the same collection contents
SameSearchAgain(m) ==
    /\ m \in SearchesAnswered
    /\ browser.isSearchMode
    /\ shownFrom = [request |-> m.request, snapshot |-> m.snapshot]

IdSet(pts) == {pts[i].id : i \in 1..Len(pts)}

\* what C6 holds of the matcher and of two case variants
CaseLawOfMatcher ==
    /\ IdsOf(probe.insensitive.results) = IdsOf(probe.insensitiveVariant.results)
    /\ probe.insensitive.total = probe.insensitiveVariant.total
    /\ \A i \in 1..Len(probe.titles) :
          /\ probe.sensitiveHit[i] => probe.insensitiveHit[i]
          /\ toLowerCase(probe.titles[i]) = toLowerCase(probe.needle)
                 /\ probe.titles[i] # probe.needle
                 => probe.insensitiveHit[i] /\ ~probe.sensitiveHit[i]

EmptyFile == "Export failed: Empty file received"

\* an export answered OK whose artifact has no bytes
ArrivedEmpty(m) ==
    /\ m \in Answered
    /\ m.handler = "handleExportCollection"
    /\ m.response.ok
    /\ Len(m.response.blob) = 0

\* C8: an export artifact of zero bytes is reported as an error, never as
\* a successful empty export: exportCollection throws, the browser triggers
\* no download and sets error; no file ever downloaded is empty.
EmptyExportIsAnError ==
    /\ [](downloaded # NoDownload => Len(downloaded.blob) > 0)
    /\ [](\A m \in Answered :
             ArrivedEmpty(m) => /\ exportCollection(m.response).thrown
                                /\ exportCollection(m.response).message = EmptyFile)
    /\ [][\A m \in Answered :
             ArrivedEmpty(m) /\ net' = Gone(m)
                 => downloaded' = downloaded /\ browser'.error = EmptyFile]_vars

\* an empty artifact arrived after a file had been downloaded: the error is
\* shown and the download is still the earlier one
EmptyExportRefused ==
    /\ browser.error = EmptyFile
    /\ downloaded # NoDownload
    /\ \A m \in Answered : ~ArrivedEmpty(m)

\* the exports without vectors whose artifact has arrived
ExportsArrived ==
    {m \in Answered : /\ m.request.kind = "export"
                      /\ m.response.ok
                      /\ ~m.request.with_vectors
                      /\ Len(m.response.blob) > 0}

\* C9: an export without vectors has one data row per point of the
\* collection: N points give N rows after the header, the ids of the rows
\* are the ids of the collection, each once; an empty collection gives the
\* header alone.
OneRowPerPoint ==
    \A m \in ExportsArrived :
        LET rows == Tail(m.response.blob)
        IN /\ Head(m.response.blob) = ExportHeader(FALSE)
           /\ Len(rows) = Len(m.snapshot)
           /\ IdSet(rows) = IdSet(m.snapshot)
           /\ \A i, j \in 1..Len(rows) : rows[i].id = rows[j].id => i = j

\* the three points of docs exported, and the header alone once it is cleared
ThreeRowsThenNone ==
    /\ downloaded # NoDownload
    /\ Len(downloaded.blob) = 4
    /\ \E m \in ExportsArrived : m.snapshot = <<>> /\ Len(m.response.blob) = 1

\* the similarity searches answered by the backend's similaritySearch (not
\* lost on the way to it) whose query vector is not of the collection's size
MismatchedAnswered ==
    {m \in Answered :
        /\ m.request.kind = "search"
        /\ m.request.body.collection_name \in DOMAIN store
        /\ Len(m.request.body.query_vector)
               # CollectionInfoOf(m.request.body.collection_name,
                                  store[m.request.body.collection_name]).vector_size
        /\ m.response # [ok |-> FALSE, detail |-> "BackendUnavailable"]}

\* C10: a similarity search whose query vector is not of the collection's
\* vector_size fails with DimensionMismatch, and no such request reaches
\* the driver: every vectorQuery the driver received had a vector of the
\* collection's size, and the caller of searchPoints gets the error thrown.
MismatchNeverDispatched ==
    /\ \A m \in MismatchedAnswered :
          m.response = [ok |-> FALSE, detail |-> "DimensionMismatch"]
    /\ driverCall # NoCall
          => Len(driverCall.vector)
                = CollectionInfoOf(driverCall.collection,
                                   store[driverCall.collection]).vector_size
    /\ outcome.called /\ Len(outcome.request.query_vector) # VecDim
          => /\ outcome.thrown
             /\ outcome.message \in {"DimensionMismatch", "BackendUnavailable"}

\* a caller got DimensionMismatch thrown for a vector one too long, after
\* the driver had served a well-formed query
MismatchThrown ==
    /\ outcome.called
    /\ outcome.thrown
    /\ outcome.message = "DimensionMismatch"
    /\ Len(outcome.request.query_vector) = VecDim + 1
    /\ driverCall # NoCall

\* the page requests in flight, and those the backend's fetchPage answered
PageRequests == {m \in BagToSet(net) : m.request.kind = "getPoints"}

RejectedPages ==
    {m \in PageRequests :
        /\ m.stage = "response"
        /\ ~ValidLimit(m.request.limit)
        /\ m.request.collection \in DOMAIN store
        /\ m.response # [ok |-> FALSE, detail |-> "BackendUnavailable"]}

\* C11: a page fetch whose limit is outside [1, 1000] is rejected with
\* InvalidLimit: it gets no page (the limit is not clamped) and the driver
\* is never asked for it; the caller gets the error thrown; and every page
\* request the browser itself sends carries a limit in [1, 1000].
InvalidLimitRejected ==
    /\ \A m \in RejectedPages :
          m.response = [ok |-> FALSE, detail |-> "InvalidLimit"]
    /\ pageRead.read => pageRead.limit >= 1 /\ pageRead.limit <= 1000
    /\ outcome.called /\ outcome.request.kind = "getPoints"
           /\ ~(outcome.request.limit \in 1..1000)
          => /\ outcome.thrown
             /\ outcome.message \in {"InvalidLimit", "BackendUnavailable"}
    /\ \A m \in PageRequests :
          m.handler = "loadPoints" => m.request.limit \in 1..1000

\* a caller got InvalidLimit thrown for limit 1001 after a page of limit
\* 1000 had been read, while a page load of the browser is in flight
LimitTooLargeThrown ==
    /\ outcome.called
    /\ outcome.thrown
    /\ outcome.message = "InvalidLimit"
    /\ outcome.request.limit = 1001
    /\ pageRead.read
    /\ pageRead.limit = 1000
    /\ \E m \in PageRequests : m.handler = "loadPoints"

(***************************************************************************)
(* C12: registering an instance whose name the registry already holds      *)
(* fails and leaves the registry unchanged: a call of addInstance (or of   *)
(* addConfig) with a name the list already holds changes nothing.          *)
(***************************************************************************)
DuplicateNameRefused ==
    [][/\ \A d \in Descriptors :
             AddInstanceOf(d) /\ d.name \in NamesOf(ctx.instances)
                => ctx'.instances = ctx.instances
       /\ \A d \in Descriptors :
             AddConfigOf(d) /\ d.name \in NamesOf(ctx.configs)
                => ctx'.configs = ctx.configs]_vars


(***************************************************************************)
(* C13: unregistering is idempotent.  Removing a name the list does not    *)
(* hold changes nothing, after a removal the name is gone and a second     *)
(* removal changes nothing more, every entry of another name stays as it   *)
(* was; the same at the backend, where a delete of an absent name is       *)
(* answered without an error, so the Welcome page never shows NotFound.    *)
(***************************************************************************)
OthersUntouched(before, after, name) ==
    /\ name \notin NamesOf(after)
    /\ \A k \in InstanceNames \ {name} : Find(after, k) = Find(before, k)
    /\ name \notin NamesOf(before) => after = before

UnregisterIdempotent ==
    /\ [](/\ welcome.error \in {Null, "BackendUnavailable"}
          /\ \A m \in Answered :
                m.request.kind = "deleteInstance"
                   => m.response.ok \/ m.response.detail = "BackendUnavailable")
    /\ [][/\ \A n \in InstanceNames :
                RemoveInstanceOf(n)
                   => /\ OthersUntouched(ctx.instances, ctx'.instances, n)
                      /\ removeInstance(ctx'.instances, n) = ctx'.instances
                      /\ ctx'.configs = ctx.configs
          /\ \A n \in InstanceNames :
                RemoveConfigOf(n)
                   => /\ OthersUntouched(ctx.configs, ctx'.configs, n)
                      /\ removeConfig(ctx'.configs, n) = ctx'.configs
                      /\ ctx'.instances = ctx.instances
          /\ \A m \in Pending :
                m.request.kind = "deleteInstance" /\ net' = Answer(m, [ok |-> TRUE], registry)
                   => OthersUntouched(registry, registry', m.request.name)]_vars

\* a second delete of the same name was answered without an error, the name
\* being absent already, and the other instance is still listed
AbsentNameDeleted ==
    /\ \E m \in Answered :
          /\ m.request.kind = "deleteInstance"
          /\ m.response.ok
          /\ m.request.name = nA
          /\ nA \notin NamesOf(m.snapshot)
    /\ registry = <<Descriptor(nB, uTwo)>>
    /\ ctx.instances = <<Descriptor(nB, uTwo)>>


(***************************************************************************)
(* C14: a name resolves exactly when the provider's lists hold it.         *)
(* Entering /browser/name for a name in neither the instance list nor the  *)
(* legacy config list sends no request and ends at the start page; a name  *)
(* in one of them mounts the Browser, which loads its collections; the     *)
(* Browser is never mounted for a name that does not resolve, and every    *)
(* request of the Browser in flight is for the name it is mounted for.     *)
(***************************************************************************)
Registered(c) == NamesOf(c.instances) \cup NamesOf(c.configs)

ResolvesExactlyWhenRegistered ==
    /\ [](route # Root
            => /\ route \in Registered(ctx)
               /\ \A m \in BagToSet(net) :
                     m.handler \in BrowserHandlers => m.request.config = route)
    /\ [][\A name \in InstanceNames :
            Enter(name)
               => IF name \in Registered(ctx)
                  THEN /\ route' = name
                       /\ browser'.isLoading
                       /\ net' = Sent(Message("loadCollections", getCollections(name),
                                              NoClosure))
                  ELSE /\ route' = Root
                       /\ net' = net]_vars

\* with both lists loaded, a is in neither: entering /browser/a ended at the
\* start page with nothing in flight, while b is held as a legacy config
UnknownNameSentBack ==
    /\ outcome.called
    /\ outcome.request = [kind |-> "navigate", name |-> nA]
    /\ route = Root
    /\ nA \notin Registered(ctx)
    /\ nB \in Registered(ctx)
    /\ InFlight = 0


(***************************************************************************)
(* C15: the instance name is a unique key.  After any sequence of          *)
(* addInstance, removeInstance and refreshInstances (addConfig,            *)
(* removeConfig and refreshConfigs likewise), neither list of the provider *)
(* holds two descriptors of the same name.                                 *)
(***************************************************************************)
NamesAreUnique ==
    /\ UniqueNames(ctx.instances)
    /\ UniqueNames(ctx.configs)
    /\ UniqueNames(registry)

\* a was loaded from the backend, b was added, then a was added again with
\* another URL: one descriptor of a is held, the new one
SameNameAddedAgain ==
    /\ registry = <<Descriptor(nA, uOne)>>
    /\ ctx.instances = <<Descriptor(nB, uOne), Descriptor(nA, uTwo)>>
    /\ ctx.configs = <<Descriptor(nB, uOne)>>


FailedSearches ==
    {m \in Answered : m.handler = "handleSearch" /\ Thrown(m.response)}

SearchAllOrNothing ==
    /\ [](\A m \in FailedSearches : DOMAIN m.response = {"ok", "detail"})
    /\ [][\A m \in FailedSearches :
            CopiesIn(m, net') < CopiesIn(m, net)
               => /\ browser'.searchResults = browser.searchResults
                  /\ browser'.searchTotal = browser.searchTotal
                  /\ browser'.searchedTotal = browser.searchedTotal
                  /\ browser'.isSearchMode = browser.isSearchMode
                  /\ browser'.error = m.response.detail
                  /\ ~browser'.isSearching
                  /\ shownFrom' = shownFrom]_vars

\* the results of a search for "Apple" are shown; a later search for "a"
\* failed and left them in place
EarlierResultsStillShown ==
    /\ browser.isSearchMode
    /\ browser.error = "BackendUnavailable"
    /\ ~browser.isSearching
    /\ browser.searchText = sa
    /\ shownFrom # NoSource
    /\ shownFrom.request.body.search_text = sApple
    /\ browser.searchResults # <<>>
    /\ InFlight = 0


(***************************************************************************)
(* C18: every failed request is surfaced.  The step that applies a failed  *)
(* answer leaves the page that is shown with an error state that holds the *)
(* backend's detail and is presented: the error box of the Browser, or the *)
(* error box of the Welcome page, which is part of the Add Instance dialog.*)
(***************************************************************************)
FailedAnswers == {m \in Answered : Thrown(m.response)}

FailuresAreSurfaced ==
    [][\A m \in FailedAnswers :
          CopiesIn(m, net') < CopiesIn(m, net)
             => IF route' = Root
                THEN WelcomeErrorShown(welcome') /\ welcome'.error = m.response.detail
                ELSE browser'.error = m.response.detail]_vars


(***************************************************************************)
(* C19: an error is scoped to the request that failed.  The step that      *)
(* applies a failed answer changes no data: the provider's instances and   *)
(* configs, the browser's collections, points, totalPoints and search      *)
(* results, and what the backend holds, are as they were before it.        *)
(***************************************************************************)
DataOf(b) ==
    <<b.collections, b.points, b.totalPoints, b.searchResults, b.searchTotal,
      b.searchedTotal>>

ErrorsAreScoped ==
    [][\A m \in FailedAnswers :
          CopiesIn(m, net') < CopiesIn(m, net)
             => /\ ctx'.instances = ctx.instances
                /\ ctx'.configs = ctx.configs
                /\ DataOf(browser') = DataOf(browser)
                /\ registry' = registry
                /\ store' = store]_vars


(***************************************************************************)
(* C20: a point carries a vector only if the request that produced it      *)
(* asked for vectors.  A page answered to a request without vectors and    *)
(* every search result hold no vector; the points the browser holds are    *)
(* those of the answer it applied; and a vector is shown only while the    *)
(* vector display is on and the search mode off.                           *)
(***************************************************************************)
NoVectors(pts) == \A i \in 1..Len(pts) : pts[i].vector = NoVector

VectorOnlyIfRequested ==
    /\ [](/\ \A m \in Answered :
                m.request.kind = "getPoints" /\ m.response.ok /\ ~m.request.with_vector
                   => NoVectors(m.response.points)
          /\ \A m \in Answered :
                m.request.kind = "textSearch" /\ m.response.ok
                   => NoVectors(m.response.results)
          /\ NoVectors(browser.searchResults)
          /\ \A i \in 1..Len(displayPoints(browser)) :
                VectorShown(browser, displayPoints(browser)[i])
                   => browser.showVectors /\ ~browser.isSearchMode)
    /\ [][\A m \in Answered :
            /\ m.handler = "loadPoints"
            /\ m.response.ok
            /\ CopiesIn(m, net') < CopiesIn(m, net)
            => browser'.points = m.response.points]_vars

\* a page asked with vectors was applied after the display was switched off
\* again: the browser holds vectors and shows none of them
VectorsHeldButHidden ==
    /\ browser.points # <<>>
    /\ ~NoVectors(browser.points)
    /\ ~browser.showVectors
    /\ ~browser.isSearchMode
    /\ PointsShown(browser)
    /\ InFlight = 0


(***************************************************************************)
(* Deleting in a collection while its listing is on the screen; every      *)
(* request succeeds.                                                       *)
(***************************************************************************)
NextCounts ==
    \/ ClickCollection
    \/ ClickDeletePoint
    \/ ClickClearCollection
    \/ ClickDeleteCollection
    \/ BackendCollections
    \/ BackendPoints
    \/ BackendDeletePoint
    \/ BackendClearCollection
    \/ BackendDeleteCollection
    \/ LoadCollectionsReturns
    \/ LoadPointsReturns
    \/ DeletePointReturns
    \/ ClearCollectionReturns
    \/ DeleteCollectionReturns
    \/ DeleteCollectionReloaded

SpecCounts == InitDocs /\ [][NextCounts]_vars

\* the "N points" line of each listed collection is the backend's count
CountsAreLive ==
    \A i \in 1..Len(browser.collections) :
       LET col == browser.collections[i]
       IN /\ Known(col.name)
          /\ col.points_count = Len(store[col.name])

\* C21: with no request in flight, the points_count presented for every
\* listed collection equals the backend's current count, also after a
\* deletePoint, clearCollection or deleteCollection that succeeded.
PointsCountIsCurrent == InFlight = 0 => CountsAreLive

\* a point of docs was deleted, everything has settled, and the list still
\* presents the count from before the deletion
StaleCountShown ==
    /\ InFlight = 0
    /\ browser.error = Null
    /\ Known("docs")
    /\ Len(store["docs"]) < Len(DocsPoints)
    /\ \E i \in 1..Len(browser.collections) :
          /\ browser.collections[i].name = "docs"
          /\ browser.collections[i].points_count = Len(DocsPoints)


(***************************************************************************)
(* Search-term highlighting: HighlightedText and HighlightedJson.          *)
(***************************************************************************)
MaxText == 3

\* does the escaped search text, as a regular expression with flag g or gi,
\* match text at position i
MatchesAt(text, i, searchText, caseSensitive) ==
    /\ i + Len(searchText) - 1 <= Len(text)
    /\ LET at == SubSeq(text, i, i + Len(searchText) - 1)
       IN IF caseSensitive THEN at = searchText
          ELSE toLowerCase(at) = toLowerCase(searchText)

\* text.split(new RegExp(`(${escaped})`, flags)): the pieces between the
\* matches, leftmost first and not overlapping, with every match (the
\* capture group) between them
RECURSIVE split(_, _, _)
split(text, searchText, caseSensitive) ==
    LET starts == {i \in 1..Len(text) : MatchesAt(text, i, searchText, caseSensitive)}
    IN IF starts = {} THEN <<text>>
       ELSE LET i == CHOOSE k \in starts : \A j \in starts : k <= j
                upto == i + Len(searchText) - 1
            IN <<SubSeq(text, 1, i - 1), SubSeq(text, i, upto)>>
               \o split(SubSeq(text, upto + 1, Len(text)), searchText, caseSensitive)

\* the condition under which a part is rendered inside <mark>
Marked(part, searchText, caseSensitive) ==
    \/ toLowerCase(part) = toLowerCase(searchText)
    \/ (caseSensitive /\ part = searchText)

\* the children of the rendered <span>: each part and whether it is marked
HighlightedText(text, searchText, caseSensitive) ==
    IF trim(searchText) = <<>>
    THEN <<[part |-> text, mark |-> FALSE]>>
    ELSE LET parts == split(text, searchText, caseSensitive)
         IN [i \in 1..Len(parts) |->
                [part |-> parts[i],
                 mark |-> Marked(parts[i], searchText, caseSensitive)]]

\* JSON.stringify(json, null, 2) of a string value (no character of the
\* alphabet needs escaping)
stringify(json) == <<"\"">> \o json \o <<"\"">>

\* the children of the rendered <pre>
HighlightedJson(json, searchText, caseSensitive) ==
    HighlightedText(stringify(json), searchText, caseSensitive)

Letters == Alphabet \cup {" "}

Texts(n) == UNION {[1..k -> Letters] : k \in 0..n}

InitHighlight ==
    /\ Mounted(InitialStore)
    /\ \E t \in Texts(MaxText), s \in Texts(MaxNeedle), cs \in BOOLEAN :
          probe = [done |-> FALSE, text |-> t, searchText |-> s,
                   caseSensitive |-> cs, asText |-> <<>>, asJson |-> <<>>]

\* both components render the probe
Highlight ==
    /\ ~probe.done
    /\ probe' = [probe EXCEPT
                    !.done = TRUE,
                    !.asText = HighlightedText(probe.text, probe.searchText,
                                               probe.caseSensitive),
                    !.asJson = HighlightedJson(probe.text, probe.searchText,
                                               probe.caseSensitive)]
    /\ UNCHANGED <<store, net, browser, downloaded, shownFrom, scanned,
                   driverCall, outcome, pageRead, aside>>

NextHighlight == Highlight

SpecHighlight == InitHighlight /\ [][NextHighlight]_vars

RECURSIVE Joined(_)
Joined(segments) ==
    IF segments = <<>> THEN <<>>
    ELSE Head(segments).part \o Joined(Tail(segments))

\* the marks of a rendering are exactly the occurrences of the search text
MarksExactly(segments, searchText, caseSensitive) ==
    \A i \in 1..Len(segments) :
       IF caseSensitive
       THEN segments[i].mark => segments[i].part = searchText
       ELSE segments[i].mark <=>
               toLowerCase(segments[i].part) = toLowerCase(searchText)

\* C22: with case-sensitive on a segment is highlighted only if it equals
\* the search term character for character, with it off exactly the segments
\* equal to the term ignoring case are highlighted, and the segments joined
\* give the original text.
HighlightMarksOccurrences ==
    probe.done /\ trim(probe.searchText) # <<>> =>
        /\ MarksExactly(probe.asText, probe.searchText, probe.caseSensitive)
        /\ MarksExactly(probe.asJson, probe.searchText, probe.caseSensitive)
        /\ Joined(probe.asText) = probe.text
        /\ Joined(probe.asJson) = stringify(probe.text)

\* a case-sensitive search for "A" has marked the text "a"
OtherCaseMarked ==
    /\ probe.done
    /\ probe.caseSensitive
    /\ probe.searchText = <<"A">>
    /\ probe.text = <<"a">>
    /\ probe.asText = <<[part |-> <<"a">>, mark |-> TRUE]>>


(***************************************************************************)
(* Turning pages and switching collections while page loads are under way; *)
(* the collections are static and every request succeeds.                  *)
(***************************************************************************)
NextTurning ==
    \/ ClickCollection
    \/ ClickShowVectors
    \/ ClickPrevious
    \/ ClickNext
    \/ BackendCollections
    \/ BackendPoints
    \/ LoadCollectionsReturns
    \/ LoadPointsReturns

SpecTurning == Init /\ [][NextTurning]_vars

PageLoads == {m \in BagToSet(net) : m.request.kind = "getPoints"}

\* what the backend answers to the page request of the current render
CurrentPageAnswer ==
    LET r == loadPointsRequest(Closure(browser))
    IN fetchPage(store[r.collection], r.offset, r.limit, r.with_payload,
                 r.with_vector)

\* C23: whenever no page request is in flight, a collection is selected and
\* search mode is off, the displayed points and totalPoints are the response
\* to the request for (selectedCollection, currentPage * pointsPerPage,
\* showVectors): a late response to an earlier request never overwrites a
\* newer one.
PageShownIsCurrent ==
    /\ PageLoads = {}
    /\ browser.selectedCollection # Null
    /\ ~browser.isSearchMode
    => /\ browser.points = CurrentPageAnswer.points
       /\ browser.totalPoints = CurrentPageAnswer.total


(***************************************************************************)
(* Searching while the selection changes; every request succeeds.          *)
(***************************************************************************)
NextSwitching ==
    \/ ClickCollection
    \/ (TypeSearchText /\ browser'.searchText = sApple)
    \/ HandleSearch
    \/ ClickClearSearch
    \/ BackendCollections
    \/ BackendPoints
    \/ BackendTextSearch
    \/ LoadCollectionsReturns
    \/ LoadPointsReturns
    \/ HandleSearchReturns

SpecSwitching == Init /\ [][NextSwitching]_vars

\* C24: whenever the Browser is in search mode, the search results it holds
\* are the outcome of a search over the currently selected collection; a
\* search response that arrives after clearSearch or after another
\* collection was selected does not re-enter search mode.
SearchResultsOfSelection ==
    browser.isSearchMode =>
        /\ shownFrom # NoSource
        /\ shownFrom.request.body.collection_name = browser.selectedCollection


(***************************************************************************)
(* Deleting instances on the Welcome page and refreshing the list; every   *)
(* request succeeds.                                                       *)
(***************************************************************************)
InitRefreshing == Loaded(<<Descriptor(nA, uOne), Descriptor(nB, uTwo)>>)

NextRefreshing ==
    \/ HandleDelete
    \/ BackendDeleteInstance
    \/ BackendInstances
    \/ HandleDeleteReturns
    \/ HandleDeleteRefreshed

SpecRefreshing == InitRefreshing /\ [][NextRefreshing]_vars

\* C25: once no refreshInstances call is in flight, the client's instances
\* list equals the backend registry as returned to the most recently started
\* refresh (with nothing in flight and no failure, the registry itself): the
\* response of an older refresh never overwrites that of a newer one.
RefreshesConverge == InFlight = 0 => ctx.instances = registry


(***************************************************************************)
(* Deleting collections while the selection changes; no request fails on   *)
(* the way.                                                                *)
(***************************************************************************)
NextDeleting ==
    \/ ClickCollection
    \/ ClickDeleteCollection
    \/ BackendCollections
    \/ BackendPoints
    \/ BackendDeleteCollection
    \/ LoadCollectionsReturns
    \/ LoadPointsReturns
    \/ DeleteCollectionReturns
    \/ DeleteCollectionReloaded

SpecDeleting == Init /\ [][NextDeleting]_vars

\* C26: whenever no request is in flight, selectedCollection is null or the
\* name of a collection of the loaded list; a deleted collection is not
\* selected, also when the selection changed while the delete was in flight.
SelectionIsListed ==
    InFlight = 0 =>
        \/ browser.selectedCollection = Null
        \/ browser.selectedCollection \in Names(browser.collections)


(***************************************************************************)
(* Turning pages and deleting points of the displayed page; every request  *)
(* succeeds.                                                               *)
(***************************************************************************)
NextShrinking ==
    \/ ClickCollection
    \/ ClickPrevious
    \/ ClickNext
    \/ ClickDeletePoint
    \/ BackendCollections
    \/ BackendPoints
    \/ BackendDeletePoint
    \/ LoadCollectionsReturns
    \/ LoadPointsReturns
    \/ DeletePointReturns

SpecShrinking == InitDocs /\ [][NextShrinking]_vars

\* C27: whenever totalPoints > 0 and no request is in flight, the page index
\* is in range: 0 <= currentPage <= totalPages - 1.
PageIndexInRange ==
    InFlight = 0 /\ browser.totalPoints > 0 =>
        /\ 0 <= browser.currentPage
        /\ browser.currentPage <= totalPages(browser) - 1


(***************************************************************************)
(* The pages of the search results.  The select offers 10, 25, 50 and 100  *)
(* results per page for at most 100 results; here 1 and 2 for at most      *)
(* SearchLimit, the initial value being the smallest.                      *)
(***************************************************************************)
ResultsPerPageOptions == {1, 2}

\* Math.ceil(searchTotal / searchResultsPerPage)
searchTotalPages(b) ==
    (b.searchTotal + b.searchResultsPerPage - 1) \div b.searchResultsPerPage

\* searchResults.slice(searchCurrentPage * searchResultsPerPage,
\*                     (searchCurrentPage + 1) * searchResultsPerPage)
paginatedSearchResults(b) ==
    SubSeq(b.searchResults,
           Min(b.searchCurrentPage * b.searchResultsPerPage, Len(b.searchResults)) + 1,
           Min((b.searchCurrentPage + 1) * b.searchResultsPerPage,
               Len(b.searchResults)))

finalDisplayPoints(b) ==
    IF b.isSearchMode THEN paginatedSearchResults(b) ELSE displayPoints(b)

\* the search pagination bar is rendered in search mode with searchTotal > 0
SearchBarShown(b) ==
    b.selectedCollection # Null /\ b.isSearchMode /\ b.searchTotal > 0

\* Previous of the search results (disabled on page 0)
ClickSearchPrevious ==
    /\ SearchBarShown(browser)
    /\ browser.searchCurrentPage # 0
    /\ Commit([browser EXCEPT
                  !.searchCurrentPage = Max(0, browser.searchCurrentPage - 1)],
              net, shownFrom)
    /\ UNCHANGED <<store, downloaded, scanned, apart>>

\* Next of the search results (disabled on the last page)
ClickSearchNext ==
    /\ SearchBarShown(browser)
    /\ browser.searchCurrentPage # searchTotalPages(browser) - 1
    /\ Commit([browser EXCEPT
                  !.searchCurrentPage = Min(searchTotalPages(browser) - 1,
                                            browser.searchCurrentPage + 1)],
              net, shownFrom)
    /\ UNCHANGED <<store, downloaded, scanned, apart>>

\* the results-per-page select: setSearchResultsPerPage, setSearchCurrentPage(0)
ChangeResultsPerPage ==
    /\ SearchBarShown(browser)
    /\ \E n \in ResultsPerPageOptions :
          /\ n # browser.searchResultsPerPage
          /\ Commit([browser EXCEPT !.searchResultsPerPage = n,
                                    !.searchCurrentPage = 0],
                    net, shownFrom)
    /\ UNCHANGED <<store, downloaded, scanned, apart>>

NextResultPages ==
    \/ ClickCollection
    \/ (TypeSearchText /\ browser'.searchText = sApple)
    \/ ClickCaseSensitive
    \/ HandleSearch
    \/ ClickSearchPrevious
    \/ ClickSearchNext
    \/ ChangeResultsPerPage
    \/ BackendCollections
    \/ BackendPoints
    \/ BackendTextSearch
    \/ LoadCollectionsReturns
    \/ LoadPointsReturns
    \/ HandleSearchReturns

SpecResultPages == InitDocs /\ [][NextResultPages]_vars

\* the range the bar announces: 'Showing X to Y of searchTotal results'
ShowingFrom(b) == b.searchCurrentPage * b.searchResultsPerPage + 1
ShowingTo(b) == Min((b.searchCurrentPage + 1) * b.searchResultsPerPage, b.searchTotal)

\* C28: in search mode with at least one result (searchTotal being the
\* number of results held), with the list on the screen, the page index is
\* in 0 .. searchTotalPages - 1 and the page shown is a non-empty slice whose
\* size is that of the range the bar announces.
SearchPageInRange ==
    /\ browser.isSearchMode
    /\ PointsShown(browser)
    /\ Len(browser.searchResults) >= 1
    /\ browser.searchTotal = Len(browser.searchResults)
    => /\ 0 <= browser.searchCurrentPage
       /\ browser.searchCurrentPage <= searchTotalPages(browser) - 1
       /\ finalDisplayPoints(browser) # <<>>
       /\ Len(finalDisplayPoints(browser)) = ShowingTo(browser) - ShowingFrom(browser) + 1


\* the loadCollections and loadPoints calls that have not resumed yet
Loads == {m \in BagToSet(net) : m.handler \in {"loadCollections", "loadPoints"}}

\* C29: the shared isLoading flag is true whenever a loadCollections or a
\* loadPoints request is in flight: the completion of one of two concurrent
\* loads never clears the flag while the other is still pending.
LoadingWhileInFlight == Loads # {} => browser.isLoading


(***************************************************************************)
(* The confirm dialogs of the destructive handlers.  outcome records the   *)
(* last dialog: the request it was about and the user's answer.            *)
(***************************************************************************)
Asked(request, answer) ==
    [called |-> TRUE, thrown |-> FALSE,
     request |-> [kind |-> "confirm", about |-> request, answer |-> answer]]

\* a variant of the handlers that goes on whatever the dialog returns
ProceedsAlways(answer) == TRUE

\* if (!confirm(...)) return
Proceeds(answer) == answer

\* handleDelete on a listed instance: the dialog, then deleteInstance
ConfirmDeleteInstance ==
    /\ route = Root
    /\ ~welcome.isAdding
    /\ \E name \in NamesOf(ctx.instances), answer \in BOOLEAN :
          /\ outcome' = Asked(apiDeleteInstance(name), answer)
          /\ IF Proceeds(answer)
             THEN /\ InFlight < MaxInFlight
                  /\ net' = Sent(Message("handleDelete", apiDeleteInstance(name),
                                         NoClosure))
             ELSE net' = net
    /\ UNCHANGED <<registry, ctx, welcome, route, browser, rest>>

\* handleDeletePoint on a displayed point: the dialog, then deletePoint
ConfirmDeletePoint ==
    /\ PointsShown(browser)
    /\ \E id \in Ids(displayPoints(browser)), answer \in BOOLEAN :
          LET request == deletePoint(configName, browser.selectedCollection, id)
          IN /\ outcome' = Asked(request, answer)
             /\ IF Proceeds(answer)
                THEN Commit(browser,
                            Sent(Message("handleDeletePoint", request,
                                         Closure(browser))),
                            shownFrom)
                ELSE UNCHANGED <<browser, net, shownFrom>>
    /\ UNCHANGED <<store, downloaded, scanned, driverCall, probe, pageRead, aside>>

\* handleClearCollection on a listed collection: the dialog, then
\* clearCollection
ConfirmClearCollection ==
    /\ ListShown(browser)
    /\ \E c \in Names(browser.collections), answer \in BOOLEAN :
          LET request == clearCollection(configName, c)
          IN /\ outcome' = Asked(request, answer)
             /\ IF Proceeds(answer)
                THEN Commit(browser,
                            Sent(Message("handleClearCollection", request,
                                         ClearClosure(browser))),
                            shownFrom)
                ELSE UNCHANGED <<browser, net, shownFrom>>
    /\ UNCHANGED <<store, downloaded, scanned, driverCall, probe, pageRead, aside>>

\* handleDeleteCollection on a listed collection: the dialog, then
\* deleteCollection
ConfirmDeleteCollection ==
    /\ ListShown(browser)
    /\ \E c \in Names(browser.collections), answer \in BOOLEAN :
          LET request == deleteCollection(configName, c)
          IN /\ outcome' = Asked(request, answer)
             /\ IF Proceeds(answer)
                THEN Commit(browser,
                            Sent(Message("handleDeleteCollection", request,
                                         DeleteClosure(browser))),
                            shownFrom)
                ELSE UNCHANGED <<browser, net, shownFrom>>
    /\ UNCHANGED <<store, downloaded, scanned, driverCall, probe, pageRead, aside>>

NextConfirm ==
    \/ OpenBrowser
    \/ ClickCollection
    \/ ConfirmDeleteInstance
    \/ ConfirmDeletePoint
    \/ ConfirmClearCollection
    \/ ConfirmDeleteCollection
    \/ BackendDeleteInstance
    \/ BackendInstances
    \/ BackendCollections
    \/ BackendPoints
    \/ BackendDeletePoint
    \/ BackendClearCollection
    \/ BackendDeleteCollection
    \/ HandleDeleteReturns
    \/ HandleDeleteRefreshed
    \/ LoadCollectionsReturns
    \/ LoadPointsReturns
    \/ DeletePointReturns
    \/ ClearCollectionReturns
    \/ DeleteCollectionReturns
    \/ DeleteCollectionReloaded

SpecConfirm == InitLive /\ [][NextConfirm]_vars

Destructive == {"deleteInstance", "deleteCollection", "clearCollection", "deletePoint"}

\* the destructive requests this step sends
SentNow ==
    {m \in BagToSet(net') :
        /\ m.stage = "request"
        /\ m.request.kind \in Destructive
        /\ CopiesIn(m, net') > CopiesIn(m, net)}

\* this step is a confirm dialog that the user declined
DeclinedNow ==
    /\ outcome' # outcome
    /\ outcome'.called
    /\ outcome'.request.kind = "confirm"
    /\ ~outcome'.request.answer

\* C30: a destructive request (deleteInstance, deleteCollection,
\* clearCollection, deletePoint) is sent only in the step in which the user
\* confirmed that action on that target; a declined dialog sends no request
\* and leaves the state as it was.
ConfirmedBeforeSent ==
    [][/\ \A m \in SentNow : outcome' = Asked(m.request, TRUE)
       /\ DeclinedNow =>
             UNCHANGED <<store, registry, net, browser, ctx, welcome, route>>]_vars

\* a delete of a point is in flight and the last dialog, about that point,
\* was confirmed
PointDeleteConfirmed ==
    \E m \in Pending :
       /\ m.request.kind = "deletePoint"
       /\ outcome = Asked(m.request, TRUE)

=============================================================================
